---- MODULE Spec2Model ----
(***************************************************************************)
(* Per-conversation processing queue, cooperative cancellation and the     *)
(* quiescence wait of the Stoat provider monitor (processMessages, the     *)
(* messageCreate / messageReactionAdd handlers and the queue helpers).     *)
(*                                                                         *)
(* The runtime is a single-threaded event loop: every action below is one  *)
(* run-to-completion segment of a handler, from one suspension point       *)
(* (await) to the next.                                                    *)
(***************************************************************************)
EXTENDS Integers, Sequences, FiniteSets, TLC

\* ------------------------------------------------------------------ bounds
MaxMsgs     == 3      \* inbound trigger messages over the whole run
MaxTurns    == 3      \* processMessages invocations over the whole run
MaxReplies  == 1      \* reply payloads the AI subsystem delivers over the run
MaxFailures == 1      \* chat-platform calls that fail over a run of SpecF
MaxTriggers == 2      \* trigger messages among the events of a run of SpecR
MaxTextLen  == 5      \* characters of a text handed to messageMentionsBot
MaxListLen  == 2      \* entries of an id list handed to a routing helper
MaxStarts   == 3      \* startAccount calls of the host over a run of SpecS
MaxCards    == 2      \* command responses sent over a run of SpecI
MaxTicks    == 3      \* clock advances over a run of SpecI

Grid          == 250    \* ms between two instants at which events occur
MaxDispatchMs == 4000   \* latest return of the dispatch call after the start

\* ------------------------------------------------------- program constants
QUIET_PERIOD   == 3000
CHECK_INTERVAL == 500
MAX_WAIT       == 180000
EXPIRY_MS      == 30 * 60 * 1000
NULL             == 0
EMOJI_PROCESSING == "processing"
EMOJI_QUEUED     == "queued"
EMOJI_STOP       == "stop"
EMOJI_COMPLETE   == "complete"
EMOJI_CANCELLED  == "cancelled"

Channels == {"chA", "chB"}
MsgIds   == 1..MaxMsgs
TurnIds  == 1..MaxTurns

\* message.author.username and message.content of an inbound message
AuthorName(m) == <<"author", m % 2>>
Content(m)    == <<"text", m>>

VARIABLES
  state,      \* channelProcessingState: channel -> ChannelProcessingState
  aborted,    \* AbortControllers whose signal is aborted (a controller is
              \* named by the turn that created it)
  turn,       \* the processMessages invocations: arguments and position
  msgChan,    \* channel of every inbound message received so far
  reactions,  \* bot reactions currently on each inbound message
  stopped,    \* the provider's stopped flag
  faults,     \* chat-platform calls that may still fail in this run
  deliveries, \* payloads the AI subsystem has handed to deliver callbacks
  lateSent,   \* turns of which a payload was sent after their token fired
  userStop,   \* inbound messages a user has put the stop reaction on
  sendCalls,  \* sendMessage calls the deliver callbacks have made
  \* one turn's quiet-period loop under a clock (SpecQ)
  now,        \* Date.now(), in ms
  qpc,        \* position of the turn: dispatching, sleeping, ended
  wakeAt,     \* expiry of the pending setTimeout
  qAborted,   \* state.abortController.signal.aborted
  lastReplyTime, startWait, lastSeenReplyTime, quietSince,
  \* trigger classification and the settings store (SpecR)
  channelSettings, \* the channelSettings map: channel -> NULL or its record
  settingsFile,    \* content of SETTINGS_FILE; NULL while the file is absent
  last,            \* the messageCreate event handled last and what it led to
  \* one call of a routing helper (SpecP)
  call,
  \* starting the provider of an account (SpecS)
  activeClients,   \* the activeClients map: account -> the client of a start
  starts,          \* the startAccount calls of the host and their position
  \* the interactive message registry and the reaction commands (SpecI)
  interactiveMessages, \* the interactiveMessages map: message id -> record
  sentCards,       \* channel of every command response sent so far
  pending,         \* command responses whose handler awaits handleCommand
  resolved,        \* the reaction handled last and what it resolved to
  registered,      \* the registration made last and its Date.now()
  \* message events whose handler is suspended (SpecA)
  fetching         \* message id -> channel of a handler awaiting fetchMessage

qvars == <<now, qpc, lastReplyTime, startWait, lastSeenReplyTime, quietSince,
           qAborted, wakeAt>>
mvars == <<state, aborted, turn, msgChan, reactions, stopped, faults,
           deliveries, lateSent, userStop, sendCalls>>
rvars == <<channelSettings, settingsFile, last>>
pvars == <<call>>
svars == <<activeClients, starts>>
ivars == <<interactiveMessages, sentCards, pending, resolved, registered>>
avars == <<fetching>>
vars  == <<mvars, qvars, rvars, pvars, svars, ivars, avars>>

\* getChannelState: the record created lazily for a channel
getChannelState ==
  [isProcessing |-> FALSE, currentMessageId |-> NULL,
   abortController |-> NULL, queuedMessages |-> <<>>]

QueuedMessage(m) == [id |-> m, cancelled |-> FALSE]

NoTurn ==
  [chan |-> "chA", messages |-> <<>>, pc |-> "none", wasAborted |-> FALSE,
   failed |-> FALSE, prompt |-> <<>>, dispatches |-> 0, reactOk |-> FALSE]

\* ------------------------------------------------------------ queue helpers
queueMessage_dropped(q, msg) == q
queueMessage_twice(q, msg) == Append(Append(q, msg), msg)

\* queueMessage
queueMessage(q, msg) == Append(q, msg)

\* index of the first queue entry with the given id, 0 when there is none
FindIndex(q, m) ==
  IF \E i \in 1..Len(q) : q[i].id = m
  THEN CHOOSE i \in 1..Len(q) :
         q[i].id = m /\ \A j \in 1..(i-1) : q[j].id # m
  ELSE 0

\* cancelQueuedMessage: TRUE when an entry was newly marked
cancelQueuedMessageOk(q, m) ==
  FindIndex(q, m) # 0 /\ ~q[FindIndex(q, m)].cancelled

cancelQueuedMessage_all(q, m) ==
  IF cancelQueuedMessageOk(q, m)
  THEN [i \in 1..Len(q) |-> [q[i] EXCEPT !.cancelled = TRUE]]
  ELSE q

cancelQueuedMessage(q, m) ==
  IF cancelQueuedMessageOk(q, m)
  THEN [q EXCEPT ![FindIndex(q, m)].cancelled = TRUE]
  ELSE q

flushQueue_unfiltered(q) == q
flushQueue_headOnly(q) ==
  LET f == SelectSeq(q, LAMBDA e : ~e.cancelled)
  IN IF f = <<>> THEN f ELSE <<f[1]>>

\* flushQueue: the non-cancelled entries, in queue order
flushQueue(q) == SelectSeq(q, LAMBDA e : ~e.cancelled)

requestAbort_allChannels(st, ab) ==
  ab \cup ({state[d].abortController : d \in Channels} \ {NULL})

\* requestAbort: the set of aborted controllers after the call
requestAbort(st, ab) ==
  IF st.isProcessing /\ st.abortController # NULL
  THEN ab \cup {st.abortController}
  ELSE ab

isBusy_never(st) == FALSE
isBusy_always(st) == TRUE
isBusy_untilCancelled(st) ==
  st.isProcessing /\ st.abortController \notin aborted

\* messageCreate handler: the test that sends a trigger to the queue
isBusy(st) == st.isProcessing

isCurrentMessage_anyInTurn(st, m) == st.currentMessageId # NULL

\* messageReactionAdd handler: the test that selects the running turn
isCurrentMessage(st, m) == st.currentMessageId = m

\* -------------------------------------------------------- prompt building
RECURSIVE CombineLoop(_, _, _)
CombineLoop(messages, i, body) ==
  IF i > Len(messages) THEN body
  ELSE CombineLoop(messages, i + 1,
         IF Len(messages) > 1
         THEN body \o
              <<"[", AuthorName(messages[i].id), "]: ",
                Content(messages[i].id), "\n">>
         ELSE <<Content(messages[i].id)>>)

combinedBody_lastOnly(messages) ==
  <<Content(messages[Len(messages)].id)>>

combinedBody(messages) == CombineLoop(messages, 1, <<>>)

\* ------------------------------------------------------------------- turns
FreeTurns == {t \in TurnIds : turn[t].pc = "none"}
NextTurn  == IF FreeTurns = {} THEN NULL
             ELSE CHOOSE t \in FreeTurns : \A u \in FreeTurns : t <= u

\* a handler continuation that rejected has its catch callback queued; the
\* callback runs before any new event is taken from the event loop
NoRejected == \A t \in TurnIds : turn[t].pc # "rejected"

StartState_sharedToken(st, messages, t, throws) ==
  IF throws THEN st
  ELSE [st EXCEPT !.abortController = 1,
                  !.currentMessageId = messages[1].id]

\* processMessages up to its first suspension point, run synchronously by
\* its caller: the channel record afterwards
StartState(st, messages, t, throws) ==
  IF throws THEN st
  ELSE [st EXCEPT !.abortController = t,
                  !.currentMessageId = messages[1].id]

StartTurn(c, messages, t, throws) ==
  [NoTurn EXCEPT !.chan = c, !.messages = messages,
                 !.pc = IF throws THEN "rejected" ELSE "mark"]

\* ------------------------------------------------- chat-platform reactions
\* one react / unreact call that succeeded
ApplyOp(r, op) == IF op[1] = "react" THEN r \cup {op[2]} ELSE r \ {op[2]}

\* a try block of react / unreact calls of which the first k succeed (the
\* call after them throws and the catch swallows it, or all of them succeed)
RECURSIVE TryBlock(_, _, _)
TryBlock(r, ops, k) ==
  IF k = 0 \/ ops = <<>> THEN r
  ELSE TryBlock(ApplyOp(r, Head(ops)), Tail(ops), k - 1)

MarkQueuedOps      == <<<<"react", EMOJI_QUEUED>>, <<"react", EMOJI_STOP>>>>
UnqueueOps         == <<<<"unreact", EMOJI_QUEUED>>>>
MarkProcessingOps  == <<<<"react", EMOJI_PROCESSING>>, <<"react", EMOJI_STOP>>>>
CancelQueuedOps    == <<<<"unreact", EMOJI_QUEUED>>, <<"unreact", EMOJI_STOP>>,
                        <<"react", EMOJI_CANCELLED>>>>
FinalOps(wasAborted) ==
  <<<<"unreact", EMOJI_PROCESSING>>, <<"unreact", EMOJI_STOP>>,
    <<"react", IF wasAborted THEN EMOJI_CANCELLED ELSE EMOJI_COMPLETE>>>>

\* number of try blocks of a batch step that ended in their catch
RECURSIVE Failed(_, _, _)
Failed(f, n, full) ==
  IF n = 0 THEN 0
  ELSE (IF f[n] < full THEN 1 ELSE 0) + Failed(f, n - 1, full)

BatchIds(messages) == {messages[i].id : i \in 1..Len(messages)}
IndexOf(messages, m) == CHOOSE i \in 1..Len(messages) : messages[i].id = m

\* ---------------------------------------------------------- settings store
NoSettings == [c \in {} |-> [readAll |-> FALSE]]
NoFile     == [exists |-> FALSE, data |-> {}]

\* JSON.stringify and JSON.parse of a boolean member value
stringifyBool(b) == IF b THEN "true" ELSE "false"
parseBool(lit)   == lit = "true"

getChannelSettings_alwaysDefault(cs, c) == [readAll |-> FALSE]

\* getChannelSettings
getChannelSettings(cs, c) ==
  IF c \in DOMAIN cs THEN cs[c] ELSE [readAll |-> FALSE]

setChannelReadAll_everyChannel(cs, c, readAll) ==
  [d \in Channels |-> [readAll |-> readAll]]

\* setChannelReadAll: the channelSettings map after the call
setChannelReadAll(cs, c, readAll) ==
  [d \in DOMAIN cs \cup {c} |->
     IF d = c THEN [getChannelSettings(cs, c) EXCEPT !.readAll = readAll]
     ELSE cs[d]]

\* saveChannelSettings: the file as written, one member per key of the map
saveChannelSettings(cs) ==
  [exists |-> TRUE,
   data   |-> {<<c, "readAll", stringifyBool(cs[c].readAll)>> : c \in DOMAIN cs}]

\* loadChannelSettings into the empty map of a fresh process
loadChannelSettings(f) ==
  IF ~f.exists THEN NoSettings
  ELSE [c \in {e[1] : e \in f.data} |->
          [readAll |-> parseBool((CHOOSE e \in f.data : e[1] = c)[3])]]

\* --------------------------------------------------- trigger classification
COMMAND_PREFIX == "!"
TEXT_COMMANDS  == {"status", "clear", "model", "help", "ping", "menu", "test",
                   "toggle-read-all", "read-mode"}

\* channel.type of the two channels
channelType(c) == IF c = "chB" THEN "DirectMessage" ELSE "TextChannel"
isDM(c) == channelType(c) \in {"DirectMessage", "Group"}

\* message.content, as a sequence of tokens: mention tokens, the command
\* prefix, blanks and words
Texts ==
  { <<"hi">>,
    <<"<@bot>", " ", "hi">>,
    <<"!", "foo">>,
    <<"!", "HELP">>,
    <<"!", "toggle-read-all">>,
    <<"<@other>", " ", "!", "toggle-read-all", " ", "hi">>,
    <<"hi", " ", "!", "help">> }

\* text.replace(/<@[^>]+>/g, "")
stripMentions(text) ==
  SelectSeq(text, LAMBDA tok : tok \notin {"<@bot>", "<@!bot>", "<@other>"})

\* String.prototype.trim
RECURSIVE trim(_)
trim(text) ==
  IF text = <<>> THEN text
  ELSE IF Head(text) = " " THEN trim(Tail(text))
  ELSE IF text[Len(text)] = " " THEN trim(SubSeq(text, 1, Len(text) - 1))
  ELSE text

startsWith(text, prefix) == text # <<>> /\ Head(text) = prefix

\* String.prototype.toLowerCase of a word
toLowerCase(word) == IF word = "HELP" THEN "help" ELSE word

\* commandText.split(/\s+/)[0] of the text after the command prefix
commandName(textWithoutMention) ==
  LET commandText == trim(Tail(textWithoutMention))
  IN IF commandText = <<>> THEN "" ELSE Head(commandText)

\* text.includes(`<@${botUserId}>`) || /\bwhimsycat\b/i.test(text)
isMentioned(text) ==
  \E i \in 1..Len(text) : text[i] \in {"<@bot>", "whimsycat"}

passesGate_noSelfCheck(c, self, system, reply, text, readAllEnabled) ==
  /\ ~system
  /\ \/ isDM(c) \/ isMentioned(text) \/ reply \/ readAllEnabled
     \/ startsWith(trim(stripMentions(text)), COMMAND_PREFIX)

\* the early returns of the messageCreate handler: own messages, system
\* messages, and channel traffic that is not addressed to the bot
passesGate(c, self, system, reply, text, readAllEnabled) ==
  /\ ~self
  /\ ~system
  /\ \/ isDM(c) \/ isMentioned(text) \/ reply \/ readAllEnabled
     \/ startsWith(trim(stripMentions(text)), COMMAND_PREFIX)

isTextCommand_caseSensitive(text) ==
  /\ startsWith(trim(stripMentions(text)), COMMAND_PREFIX)
  /\ commandName(trim(stripMentions(text))) \in TEXT_COMMANDS

\* the test that sends a message to the command path
isTextCommand(text) ==
  /\ startsWith(trim(stripMentions(text)), COMMAND_PREFIX)
  /\ toLowerCase(commandName(trim(stripMentions(text)))) \in TEXT_COMMANDS

NoLast ==
  [chan |-> "none", self |-> FALSE, system |-> FALSE, reply |-> FALSE,
   text |-> <<>>, outcome |-> "none"]

NoCall == [fn |-> "none"]

\* no startAccount call was made yet
Accounts == {"acc1", "acc2"}
StartIds == 1..MaxStarts
NoStart ==
  [account |-> "none", given |-> <<>>, token |-> <<>>, pc |-> "none",
   login |-> "none", logins |-> 0]
NoStarts ==
  /\ activeClients = [a \in {} |-> 0]
  /\ starts = [i \in StartIds |-> NoStart]

\* no command response was sent yet
CardIds == 1..MaxCards
NoResolved ==
  [target |-> <<"none", 0>>, chan |-> "none", emoji |-> "none",
   user |-> "none", via |-> "none", command |-> "none", sessionKey |-> <<>>]
NoRegistered == [id |-> 0, at |-> 0]
NoCards ==
  /\ interactiveMessages = [n \in {} |-> 0]
  /\ sentCards = [n \in CardIds |-> "none"]
  /\ pending = {}
  /\ resolved = NoResolved
  /\ registered = NoRegistered

\* no handler is suspended at fetchMessage
NoFetching == fetching = [m \in MsgIds |-> "none"]

\* ----------------------------------------------------------------- actions
Received == {m \in MsgIds : msgChan[m] # "none"}
NextMsg  == Cardinality(Received) + 1

\* messageCreate handler, queue system: a trigger message (it passed the
\* classification and is not a command) reaches the queue of its channel
QueueSystemOf(m, c, k, throws) ==
  /\ msgChan' = [msgChan EXCEPT ![m] = c]
  /\ IF isBusy(state[c])
     THEN /\ ~throws
          /\ (IF k < 2 THEN 1 ELSE 0) <= faults
          /\ state' = [state EXCEPT ![c].queuedMessages =
                         queueMessage(@, QueuedMessage(m))]
          /\ reactions' = [reactions EXCEPT ![m] =
                             TryBlock(@, MarkQueuedOps, k)]
          /\ faults' = faults - (IF k < 2 THEN 1 ELSE 0)
          /\ UNCHANGED turn
     ELSE /\ k = 2
          /\ NextTurn # NULL
          /\ state' = [state EXCEPT ![c] =
                         StartState([@ EXCEPT !.isProcessing = TRUE],
                                    <<QueuedMessage(m)>>, NextTurn,
                                    throws)]
          /\ turn' = [turn EXCEPT ![NextTurn] =
                        StartTurn(c, <<QueuedMessage(m)>>, NextTurn,
                                  throws)]
          /\ UNCHANGED <<reactions, faults>>
  /\ UNCHANGED <<aborted, stopped, sendCalls, deliveries, lateSent, userStop, qvars,
                 pvars, svars, ivars>>

\* messageCreate handler of a message that reaches the queue system without
\* suspending: the stopped check at its entry and the queue system
QueueSystem(c, k, throws) ==
  /\ ~stopped
  /\ NextMsg <= MaxMsgs
  /\ QueueSystemOf(NextMsg, c, k, throws)
  /\ UNCHANGED avars

\* a trigger message of which only the queue system is followed
Submit(c, k, throws) == QueueSystem(c, k, throws) /\ UNCHANGED rvars

onRejected_keepsBusy(st) == st

\* the callback passed to .catch of a processMessages call: the channel
\* record after it has logged the error
onRejected(st) == [st EXCEPT !.isProcessing = FALSE]

\* the catch callback attached to a processMessages call that rejected
CatchRejected(t) ==
  /\ turn[t].pc = "rejected"
  /\ turn' = [turn EXCEPT ![t].pc = "done"]
  /\ state' = [state EXCEPT ![turn[t].chan] = onRejected(@)]
  /\ UNCHANGED <<aborted, msgChan, reactions, stopped, faults, sendCalls, deliveries,
               lateSent, userStop, qvars, rvars, pvars, svars, ivars, avars>>

\* processMessages: mark the batch as processing, start typing (ft = 1: the
\* startTyping call threw into its empty catch), build the combined prompt
\* and call the AI dispatch
MarkAndDispatchWith(t, fq, fp, ft) ==
  /\ NoRejected
  /\ turn[t].pc = "mark"
  /\ LET msgs == turn[t].messages
         n    == Len(msgs)
         nf   == Failed(fq, n, 1) + Failed(fp, n, 2) + ft
     IN /\ nf <= faults
        /\ faults' = faults - nf
        /\ reactions' =
             [m \in MsgIds |->
                IF m \in BatchIds(msgs)
                THEN TryBlock(TryBlock(reactions[m], UnqueueOps,
                                       fq[IndexOf(msgs, m)]),
                              MarkProcessingOps, fp[IndexOf(msgs, m)])
                ELSE reactions[m]]
        /\ turn' = [turn EXCEPT ![t].pc = "dispatching",
                                ![t].prompt = combinedBody(msgs),
                                ![t].dispatches = @ + 1]
  /\ UNCHANGED <<state, aborted, msgChan, stopped, sendCalls, deliveries, lateSent, userStop, qvars, rvars, pvars, svars, ivars, avars>>

MarkAndDispatch(t) ==
  \E fq \in [1..Len(turn[t].messages) -> 0..1],
     fp \in [1..Len(turn[t].messages) -> 0..2],
     ft \in 0..1 : MarkAndDispatchWith(t, fq, fp, ft)

\* dispatchReplyFromConfig returns
DispatchReturns(t) ==
  /\ NoRejected
  /\ turn[t].pc = "dispatching"
  /\ turn' = [turn EXCEPT ![t].pc = "wait"]
  /\ UNCHANGED <<state, aborted, msgChan, reactions, stopped, faults,
               sendCalls, deliveries, lateSent, userStop, qvars, rvars, pvars, svars, ivars, avars>>

\* dispatchReplyFromConfig throws: the catch of processMessages logs it
DispatchThrows(t) ==
  /\ NoRejected
  /\ turn[t].pc = "dispatching"
  /\ turn' = [turn EXCEPT ![t].pc = "stoptyping", ![t].failed = TRUE]
  /\ UNCHANGED <<state, aborted, msgChan, reactions, stopped, faults,
               sendCalls, deliveries, lateSent, userStop, qvars, rvars, pvars, svars, ivars, avars>>

\* the quiet-period loop is left (quiet window, hard ceiling or abort; the
\* timing of the loop is the subject of SpecQ)
WaitExit(t) ==
  /\ NoRejected
  /\ turn[t].pc = "wait"
  /\ turn' = [turn EXCEPT ![t].pc = "stoptyping"]
  /\ UNCHANGED <<state, aborted, msgChan, reactions, stopped, faults,
               sendCalls, deliveries, lateSent, userStop, qvars, rvars, pvars, svars, ivars, avars>>

\* state.abortController?.signal.aborted
signalAborted(st, ab) == st.abortController # NULL /\ st.abortController \in ab

\* stopTyping has returned or has thrown into its empty catch (ft = 1):
\* wasAborted is read
ReadWasAbortedWith(t, ft) ==
  /\ NoRejected
  /\ turn[t].pc = "stoptyping"
  /\ ft <= faults
  /\ faults' = faults - ft
  /\ turn' = [turn EXCEPT ![t].pc = "react",
                          ![t].wasAborted =
                             signalAborted(state[turn[t].chan], aborted)]
  /\ UNCHANGED <<state, aborted, msgChan, reactions, stopped,
               sendCalls, deliveries, lateSent, userStop, qvars, rvars, pvars, svars, ivars, avars>>

ReadWasAborted(t) == \E ft \in 0..1 : ReadWasAbortedWith(t, ft)

\* the terminal reactions are placed, the processing state is cleared and
\* the queue is flushed into the next batch, which is started at once
FinishWith(t, f, throws) ==
  /\ NoRejected
  /\ turn[t].pc = "react"
  /\ LET c    == turn[t].chan
         msgs == turn[t].messages
         n    == Len(msgs)
         nf   == Failed(f, n, 3)
         nextBatch == flushQueue(state[c].queuedMessages)
         cleared == [state[c] EXCEPT !.isProcessing = FALSE,
                                     !.currentMessageId = NULL,
                                     !.abortController = NULL,
                                     !.queuedMessages = <<>>]
     IN /\ nf <= faults
        /\ faults' = faults - nf
        /\ reactions' =
             [m \in MsgIds |->
                IF m \in BatchIds(msgs)
                THEN TryBlock(reactions[m], FinalOps(turn[t].wasAborted),
                              f[IndexOf(msgs, m)])
                ELSE reactions[m]]
        /\ IF Len(nextBatch) > 0
           THEN /\ NextTurn # NULL
                /\ state' = [state EXCEPT ![c] =
                               StartState([cleared EXCEPT !.isProcessing = TRUE],
                                          nextBatch, NextTurn, throws)]
                /\ turn' = [turn EXCEPT
                              ![t].pc = "done", ![t].reactOk = (nf = 0),
                              ![NextTurn] = StartTurn(c, nextBatch, NextTurn,
                                                      throws)]
           ELSE /\ ~throws
                /\ state' = [state EXCEPT ![c] = cleared]
                /\ turn' = [turn EXCEPT ![t].pc = "done",
                                        ![t].reactOk = (nf = 0)]
  /\ UNCHANGED <<aborted, msgChan, stopped, sendCalls, deliveries, lateSent, userStop, qvars, rvars, pvars, svars, ivars, avars>>

Finish(t) ==
  \E throws \in BOOLEAN, f \in [1..Len(turn[t].messages) -> 0..3] :
    FinishWith(t, f, throws)

sendAttempts_retry(ok) == IF ok THEN 1 ELSE 2

\* sendMessage calls of one deliver invocation: one, inside a try block
\* whose catch logs the error
sendAttempts(ok) == 1

\* the deliver callback of a turn's dispatcher is invoked with a payload;
\* ok: the sendMessage call it makes succeeds
Deliver(t, ok) ==
  /\ NoRejected
  /\ turn[t].dispatches > 0
  /\ deliveries < MaxReplies
  /\ deliveries' = deliveries + 1
  /\ IF signalAborted(state[turn[t].chan], aborted)
     THEN /\ ok
          /\ UNCHANGED <<faults, lateSent, sendCalls>>
     ELSE /\ (IF ok THEN 0 ELSE 1) <= faults
          /\ faults' = faults - (IF ok THEN 0 ELSE 1)
          /\ sendCalls' = sendCalls + sendAttempts(ok)
          /\ lateSent' = IF t \in aborted THEN lateSent \cup {t} ELSE lateSent
  /\ UNCHANGED <<state, aborted, turn, msgChan, reactions, stopped, userStop,
               qvars, rvars, pvars, svars, ivars, avars>>

\* messageReactionAdd handler, stop button: a user other than the bot adds
\* the stop reaction to message m
StopReaction(m, k) ==
  /\ NoRejected
  /\ ~stopped
  /\ m \in Received \ userStop
  /\ LET c == msgChan[m]
     IN IF isCurrentMessage(state[c], m)
        THEN /\ k = 3
             /\ aborted' = requestAbort(state[c], aborted)
             /\ UNCHANGED <<state, reactions, faults>>
        ELSE IF cancelQueuedMessageOk(state[c].queuedMessages, m)
        THEN /\ (IF k < 3 THEN 1 ELSE 0) <= faults
             /\ faults' = faults - (IF k < 3 THEN 1 ELSE 0)
             /\ state' = [state EXCEPT ![c].queuedMessages =
                            cancelQueuedMessage(@, m)]
             /\ reactions' = [reactions EXCEPT ![m] =
                                TryBlock(@, CancelQueuedOps, k)]
             /\ UNCHANGED aborted
        ELSE /\ k = 3
             /\ UNCHANGED <<state, aborted, reactions, faults>>
  /\ userStop' = userStop \cup {m}
  /\ UNCHANGED <<turn, msgChan, stopped, sendCalls, deliveries, lateSent, qvars, rvars, pvars, svars, ivars, avars>>

\* the abort listener / cleanup function of the provider
StopHook ==
  /\ NoRejected
  /\ ~stopped
  /\ stopped' = TRUE
  /\ UNCHANGED <<state, aborted, turn, msgChan, reactions, faults, sendCalls, deliveries,
               lateSent, userStop, qvars, rvars, pvars, svars, ivars, avars>>

\* handleCommand: the commands that change the state modelled here
handleCommand(c, command) ==
  IF toLowerCase(command) = "toggle-read-all"
  THEN \E ok \in BOOLEAN :
         /\ ok \/ faults > 0
         /\ channelSettings' =
              setChannelReadAll(channelSettings, c,
                                ~getChannelSettings(channelSettings, c).readAll)
         /\ settingsFile' = IF ok THEN saveChannelSettings(channelSettings')
                            ELSE settingsFile
         /\ faults' = IF ok THEN faults ELSE faults - 1
  ELSE UNCHANGED <<channelSettings, settingsFile, faults>>

\* messageCreate handler: the early returns, the command path and the queue
\* system.  self: the author is the bot; system: the system flag; reply:
\* one of the replied-to messages was fetched and is the bot's
Receive(c, self, system, reply, text) ==
  /\ ~stopped
  /\ LET readAllEnabled == getChannelSettings(channelSettings, c).readAll
         event == [chan |-> c, self |-> self, system |-> system,
                   reply |-> reply, text |-> text, outcome |-> "none"]
     IN IF ~passesGate(c, self, system, reply, text, readAllEnabled)
        THEN /\ last' = [event EXCEPT !.outcome = "ignored"]
             /\ UNCHANGED <<mvars, channelSettings, settingsFile, qvars, pvars, svars, ivars, avars>>
        ELSE IF isTextCommand(text)
        THEN /\ last' = [event EXCEPT !.outcome = "command"]
             /\ handleCommand(c, commandName(trim(stripMentions(text))))
             /\ UNCHANGED <<state, aborted, turn, msgChan, reactions, stopped,
                            sendCalls, deliveries, lateSent, userStop, qvars, pvars, svars, ivars, avars>>
        ELSE /\ Cardinality(Received) < MaxTriggers
             /\ \E k \in 0..2, throws \in BOOLEAN : QueueSystem(c, k, throws)
             /\ last' = [event EXCEPT !.outcome =
                           IF isBusy(state[c]) THEN "queued" ELSE "started"]
             /\ UNCHANGED <<channelSettings, settingsFile>>

\* the process is restarted: the module is initialised again, which loads
\* the settings file; the turns of the old process are gone
Restart ==
  /\ channelSettings' = loadChannelSettings(settingsFile)
  /\ state' = [c \in Channels |-> getChannelState]
  /\ turn' = [t \in TurnIds |->
                IF turn[t].pc \in {"none", "done"} THEN turn[t]
                ELSE [turn[t] EXCEPT !.pc = "killed"]]
  /\ last' = [NoLast EXCEPT !.outcome = "restarted"]
  /\ UNCHANGED <<aborted, msgChan, reactions, stopped, faults, sendCalls, deliveries,
                 lateSent, userStop, settingsFile, qvars, pvars, svars, ivars, avars>>

Init ==
  /\ state = [c \in Channels |-> getChannelState]
  /\ aborted = {}
  /\ turn = [t \in TurnIds |-> NoTurn]
  /\ msgChan = [m \in MsgIds |-> "none"]
  /\ reactions = [m \in MsgIds |-> {}]
  /\ stopped = FALSE
  /\ faults = 0
  /\ deliveries = 0
  /\ sendCalls = 0
  /\ lateSent = {}
  /\ userStop = {}
  /\ channelSettings = NoSettings /\ settingsFile = NoFile
  /\ last = NoLast /\ call = NoCall
  /\ NoStarts /\ NoCards /\ NoFetching
  /\ now = 0 /\ qpc = "off" /\ lastReplyTime = 0 /\ startWait = 0
  /\ lastSeenReplyTime = 0 /\ quietSince = 0 /\ qAborted = FALSE
  /\ wakeAt = 0

Next ==
  \/ \E c \in Channels, k \in 0..2, throws \in BOOLEAN : Submit(c, k, throws)
  \/ \E t \in TurnIds : CatchRejected(t)
  \/ \E t \in TurnIds : MarkAndDispatch(t)
  \/ \E t \in TurnIds : DispatchReturns(t)
  \/ \E t \in TurnIds : DispatchThrows(t)
  \/ \E t \in TurnIds : WaitExit(t)
  \/ \E t \in TurnIds : ReadWasAborted(t)
  \/ \E t \in TurnIds : Finish(t)
  \/ \E t \in TurnIds, ok \in BOOLEAN : Deliver(t, ok)
  \/ \E m \in MsgIds, k \in 0..3 : StopReaction(m, k)
  \/ StopHook

Spec == Init /\ [][Next]_vars

\* the same program on a chat platform of which up to MaxFailures calls fail
InitF ==
  /\ state = [c \in Channels |-> getChannelState]
  /\ aborted = {}
  /\ turn = [t \in TurnIds |-> NoTurn]
  /\ msgChan = [m \in MsgIds |-> "none"]
  /\ reactions = [m \in MsgIds |-> {}]
  /\ stopped = FALSE
  /\ faults = MaxFailures
  /\ deliveries = 0
  /\ sendCalls = 0
  /\ lateSent = {}
  /\ userStop = {}
  /\ channelSettings = NoSettings /\ settingsFile = NoFile
  /\ last = NoLast /\ call = NoCall
  /\ NoStarts /\ NoCards /\ NoFetching
  /\ now = 0 /\ qpc = "off" /\ lastReplyTime = 0 /\ startWait = 0
  /\ lastSeenReplyTime = 0 /\ quietSince = 0 /\ qAborted = FALSE
  /\ wakeAt = 0

\* the steps of Spec while the provider is running
NextF ==
  \/ \E c \in Channels, k \in 0..2, throws \in BOOLEAN : Submit(c, k, throws)
  \/ \E t \in TurnIds : CatchRejected(t)
  \/ \E t \in TurnIds : MarkAndDispatch(t)
  \/ \E t \in TurnIds : DispatchReturns(t)
  \/ \E t \in TurnIds : DispatchThrows(t)
  \/ \E t \in TurnIds : WaitExit(t)
  \/ \E t \in TurnIds : ReadWasAborted(t)
  \/ \E t \in TurnIds : Finish(t)
  \/ \E t \in TurnIds, ok \in BOOLEAN : Deliver(t, ok)
  \/ \E m \in MsgIds, k \in 0..3 : StopReaction(m, k)

SpecF == InitF /\ [][NextF]_vars

\* ------------------------------------------- the quiet-period loop in time
\* One turn of processMessages from its dispatch call on, under a clock in
\* ms.  A setTimeout expires exactly at its deadline; between two expiries
\* the clock advances in steps of Grid.
StartTime == Grid

\* the clock of SpecI advances by half the life of a record
TickMs == EXPIRY_MS \div 2

Min(a, b) == IF a < b THEN a ELSE b
Max(a, b) == IF a > b THEN a ELSE b

quietReached_wrongWindow(t, since) == t - since >= MAX_WAIT

\* Date.now() - quietSince >= QUIET_PERIOD
quietReached(t, since) == t - since >= QUIET_PERIOD

loopCondition_doubleCeiling(t, start, ab) == t - start < 2 * MAX_WAIT /\ ~ab
loopCondition_ignoresAbort(t, start, ab) == t - start < MAX_WAIT

\* the while condition of the quiet-period loop
loopCondition(t, start, ab) == t - start < MAX_WAIT /\ ~ab

QTick ==
  /\ qpc \in {"dispatching", "sleeping"}
  /\ IF qpc = "sleeping"
     THEN now < wakeAt /\ now' = Min(now + Grid, wakeAt)
     ELSE now + Grid <= StartTime + MaxDispatchMs /\ now' = now + Grid
  /\ UNCHANGED <<qpc, lastReplyTime, startWait, lastSeenReplyTime, quietSince,
                 qAborted, wakeAt, mvars, rvars, pvars, svars, ivars, avars>>

\* deliver: the token has not fired and sendMessage has succeeded
QDeliver ==
  /\ qpc \in {"dispatching", "sleeping"}
  /\ ~qAborted
  /\ lastReplyTime' = now
  /\ UNCHANGED <<now, qpc, startWait, lastSeenReplyTime, quietSince, qAborted,
                 wakeAt, mvars, rvars, pvars, svars, ivars, avars>>

\* requestAbort on the running turn
QAbort ==
  /\ qpc \in {"dispatching", "sleeping"}
  /\ ~qAborted
  /\ qAborted' = TRUE
  /\ UNCHANGED <<now, qpc, lastReplyTime, startWait, lastSeenReplyTime,
                 quietSince, wakeAt, mvars, rvars, pvars, svars, ivars, avars>>

\* the dispatch call returns: the loop is set up and entered
QDispatchReturns ==
  /\ qpc = "dispatching"
  /\ startWait' = now
  /\ lastSeenReplyTime' = lastReplyTime
  /\ quietSince' = IF lastReplyTime > 0 THEN lastReplyTime ELSE now
  /\ IF loopCondition(now, now, qAborted)
     THEN qpc' = "sleeping" /\ wakeAt' = now + CHECK_INTERVAL
     ELSE qpc' = "ended" /\ UNCHANGED wakeAt
  /\ UNCHANGED <<now, lastReplyTime, qAborted, mvars, rvars, pvars, svars, ivars, avars>>

\* the setTimeout of the loop body expires: one iteration's checks
QPoll ==
  /\ qpc = "sleeping"
  /\ now = wakeAt
  /\ LET newReply == lastReplyTime > lastSeenReplyTime
         since    == IF newReply THEN lastReplyTime ELSE quietSince
     IN /\ lastSeenReplyTime' = IF newReply THEN lastReplyTime
                                ELSE lastSeenReplyTime
        /\ quietSince' = since
        /\ IF quietReached(now, since) \/ ~loopCondition(now, startWait, qAborted)
           THEN qpc' = "ended" /\ UNCHANGED wakeAt
           ELSE qpc' = "sleeping" /\ wakeAt' = now + CHECK_INTERVAL
  /\ UNCHANGED <<now, lastReplyTime, startWait, qAborted, mvars, rvars, pvars, svars, ivars, avars>>

InitQ ==
  /\ state = [c \in Channels |-> getChannelState]
  /\ aborted = {}
  /\ turn = [t \in TurnIds |-> NoTurn]
  /\ msgChan = [m \in MsgIds |-> "none"]
  /\ reactions = [m \in MsgIds |-> {}]
  /\ stopped = FALSE
  /\ faults = 0
  /\ deliveries = 0
  /\ sendCalls = 0
  /\ lateSent = {}
  /\ userStop = {}
  /\ channelSettings = NoSettings /\ settingsFile = NoFile
  /\ last = NoLast /\ call = NoCall
  /\ NoStarts /\ NoCards /\ NoFetching
  /\ now = StartTime /\ qpc = "dispatching" /\ lastReplyTime = 0
  /\ startWait = 0 /\ lastSeenReplyTime = 0 /\ quietSince = 0
  /\ qAborted = FALSE /\ wakeAt = 0

NextQ == QTick \/ QDeliver \/ QAbort \/ QDispatchReturns \/ QPoll

SpecQ == InitQ /\ [][NextQ]_vars

\* ------------------------------ trigger classification and settings store
\* Every messageCreate event with its fields, the settings store behind the
\* toggle command, and the turns the accepted triggers lead to.
InitR ==
  /\ state = [c \in Channels |-> getChannelState]
  /\ aborted = {}
  /\ turn = [t \in TurnIds |-> NoTurn]
  /\ msgChan = [m \in MsgIds |-> "none"]
  /\ reactions = [m \in MsgIds |-> {}]
  /\ stopped = FALSE
  /\ faults = 0
  /\ deliveries = 0
  /\ sendCalls = 0
  /\ lateSent = {}
  /\ userStop = {}
  /\ channelSettings = NoSettings /\ settingsFile = NoFile
  /\ last = NoLast /\ call = NoCall
  /\ NoStarts /\ NoCards /\ NoFetching
  /\ now = 0 /\ qpc = "off" /\ lastReplyTime = 0 /\ startWait = 0
  /\ lastSeenReplyTime = 0 /\ quietSince = 0 /\ qAborted = FALSE
  /\ wakeAt = 0

ReceiveAny ==
  \E c \in Channels, self \in BOOLEAN, system \in BOOLEAN, reply \in BOOLEAN,
     text \in Texts :
    Receive(c, self, system, reply, text)

NextR ==
  \/ ReceiveAny
  \/ \E t \in TurnIds : CatchRejected(t)
  \/ \E t \in TurnIds : MarkAndDispatch(t)
  \/ \E t \in TurnIds : DispatchReturns(t)
  \/ \E t \in TurnIds : WaitExit(t)
  \/ \E t \in TurnIds : ReadWasAborted(t)
  \/ \E t \in TurnIds : Finish(t)
  \/ Restart

SpecR == InitR /\ [][NextR]_vars


\* --------------------------------------------------------- routing helpers
\* The exported functions of routing.ts, each applied once to arguments
\* drawn from bounded sets.  A string is a sequence of characters; an
\* optional argument is <<>> when it is undefined and <<v>> when it is v.
None    == <<>>
Some(v) == <<v>>

BSeq(S, n) == UNION {[1..k -> S] : k \in 0..n}

\* String.prototype.includes
includes(text, pat) ==
  \E i \in 1..(Len(text) - Len(pat) + 1) :
    SubSeq(text, i, i + Len(pat) - 1) = pat

\* Array.prototype.includes
arrayIncludes(list, v) == \E i \in 1..Len(list) : list[i] = v

messageMentionsBot_bareTokenOnly(text, botUserId, mentionIds) ==
  IF botUserId = None \/ trim(botUserId[1]) = <<>> THEN FALSE
  ELSE includes(IF text = None THEN <<>> ELSE text[1],
                <<"<", "@">> \o trim(botUserId[1]) \o <<">">>)

\* messageMentionsBot
messageMentionsBot(text, botUserId, mentionIds) ==
  IF botUserId = None \/ trim(botUserId[1]) = <<>> THEN FALSE
  ELSE IF mentionIds # None /\ arrayIncludes(mentionIds[1], trim(botUserId[1]))
  THEN TRUE
  ELSE LET txt == IF text = None THEN <<>> ELSE text[1]
       IN \/ includes(txt, <<"<", "@">> \o trim(botUserId[1]) \o <<">">>)
          \/ includes(txt, <<"<", "@", "!">> \o trim(botUserId[1]) \o <<">">>)

\* a value of a reply-reference list or of the known-id collection: null, a
\* number, a string, or an object whose id is missing, a number or a string
Item(kind, id) == [kind |-> kind, id |-> id]
typeof(item) ==
  IF item.kind = "string" THEN "string"
  ELSE IF item.kind = "number" THEN "number"
  ELSE "object"
truthy(item) ==
  /\ item.kind # "null"
  /\ item.kind = "string" => item.id # <<>>

\* reading the property id of a value: a TypeError for null, otherwise the
\* type of the property and its value
getId(item) ==
  IF item.kind = "null" THEN [threw |-> TRUE, type |-> "undefined", id |-> <<>>]
  ELSE IF item.kind = "strid" THEN [threw |-> FALSE, type |-> "string", id |-> item.id]
  ELSE IF item.kind = "numid" THEN [threw |-> FALSE, type |-> "number", id |-> <<>>]
  ELSE [threw |-> FALSE, type |-> "undefined", id |-> <<>>]

RECURSIVE normalizeLoop(_, _, _)
normalizeLoop(input, guarded, out) ==
  IF input = <<>> THEN [threw |-> FALSE, out |-> out]
  ELSE LET item == Head(input)
       IN IF typeof(item) = "string"
          THEN normalizeLoop(Tail(input), guarded, Append(out, item.id))
          ELSE IF (guarded => truthy(item)) /\ typeof(item) = "object"
          THEN IF getId(item).threw THEN [threw |-> TRUE, out |-> out]
               ELSE normalizeLoop(Tail(input), guarded,
                      IF getId(item).type = "string"
                      THEN Append(out, getId(item).id) ELSE out)
          ELSE normalizeLoop(Tail(input), guarded, out)

normalizeIdList_noNullGuard(input) ==
  IF input.kind # "array" THEN [threw |-> FALSE, out |-> <<>>]
  ELSE normalizeLoop(input.items, FALSE, <<>>)

\* normalizeIdList; input is undefined, a value that is not an array, or an
\* array of items
normalizeIdList(input) ==
  IF input.kind # "array" THEN [threw |-> FALSE, out |-> <<>>]
  ELSE normalizeLoop(input.items, TRUE, <<>>)

\* the Set built from knownBotMessageIds
knownSet(known) ==
  IF known = None THEN {}
  ELSE {known[1][i].id : i \in {j \in 1..Len(known[1]) :
                                  /\ typeof(known[1][j]) = "string"
                                  /\ trim(known[1][j].id) # <<>>}}

\* messageRepliesToBot: whether it threw, and the value it returned
messageRepliesToBot(replyIds, knownBotMessageIds) ==
  IF knownSet(knownBotMessageIds) = {} THEN [threw |-> FALSE, value |-> FALSE]
  ELSE IF normalizeIdList(replyIds).threw THEN [threw |-> TRUE, value |-> FALSE]
  ELSE [threw |-> FALSE,
        value |-> \E i \in 1..Len(normalizeIdList(replyIds).out) :
                    normalizeIdList(replyIds).out[i]
                      \in knownSet(knownBotMessageIds)]

\* an optional boolean parameter: "undefined", "false" or "true"
truthyOpt(v) == v = "true"

shouldProcessInboundMessage_noReply(isSelf, isSystem, dm, mentioned, isReplyToBot) ==
  IF isSelf THEN FALSE
  ELSE IF isSystem THEN FALSE
  ELSE IF ~dm /\ ~mentioned THEN FALSE
  ELSE TRUE

\* shouldProcessInboundMessage
shouldProcessInboundMessage(isSelf, isSystem, dm, mentioned, isReplyToBot) ==
  IF isSelf THEN FALSE
  ELSE IF isSystem THEN FALSE
  ELSE IF ~dm /\ ~mentioned /\ ~truthyOpt(isReplyToBot) THEN FALSE
  ELSE TRUE

\* the arguments
TextChars   == {"<", "@", "!", ">", "b"}
BotUserIds  == {None, Some(<<>>), Some(<<" ">>), Some(<<"b">>),
                Some(<<" ", "b">>), Some(<<"c">>)}
MentionIdStrings == {<<"b">>, <<" ", "b">>, <<"c">>}
MessageIdStrings == {<<"r">>, <<"s">>, <<" ">>}
ReplyItems ==
  {Item("null", <<>>), Item("number", <<>>), Item("noid", <<>>),
   Item("numid", <<>>)}
    \cup {Item("string", id) : id \in MessageIdStrings}
    \cup {Item("strid", id) : id \in MessageIdStrings}
KnownItems ==
  {Item("number", <<>>)} \cup {Item("string", id) : id \in MessageIdStrings}
ReplyInputs ==
  {[kind |-> "undefined", items |-> <<>>], [kind |-> "string", items |-> <<>>]}
    \cup {[kind |-> "array", items |-> l] : l \in BSeq(ReplyItems, MaxListLen)}

InitP ==
  /\ state = [c \in Channels |-> getChannelState]
  /\ aborted = {}
  /\ turn = [t \in TurnIds |-> NoTurn]
  /\ msgChan = [m \in MsgIds |-> "none"]
  /\ reactions = [m \in MsgIds |-> {}]
  /\ stopped = FALSE
  /\ faults = 0
  /\ deliveries = 0
  /\ sendCalls = 0
  /\ lateSent = {}
  /\ userStop = {}
  /\ channelSettings = NoSettings /\ settingsFile = NoFile
  /\ last = NoLast
  /\ NoStarts /\ NoCards /\ NoFetching
  /\ now = 0 /\ qpc = "off" /\ lastReplyTime = 0 /\ startWait = 0
  /\ lastSeenReplyTime = 0 /\ quietSince = 0 /\ qAborted = FALSE
  /\ wakeAt = 0
  /\ \/ \E isSelf \in BOOLEAN, isSystem \in BOOLEAN, dm \in BOOLEAN,
           mentioned \in BOOLEAN, isReplyToBot \in {"undefined", "false", "true"} :
          call = [fn |-> "shouldProcessInboundMessage", isSelf |-> isSelf,
                  isSystem |-> isSystem, isDM |-> dm,
                  isMentioned |-> mentioned, isReplyToBot |-> isReplyToBot,
                  done |-> FALSE, threw |-> FALSE, result |-> FALSE]
     \/ \E text \in {None} \cup {Some(x) : x \in BSeq(TextChars, MaxTextLen)},
           botUserId \in BotUserIds,
           mentionIds \in {None} \cup
                          {Some(l) : l \in BSeq(MentionIdStrings, MaxListLen)} :
          call = [fn |-> "messageMentionsBot", text |-> text,
                  botUserId |-> botUserId, mentionIds |-> mentionIds,
                  done |-> FALSE, threw |-> FALSE, result |-> FALSE]
     \/ \E replyIds \in ReplyInputs,
           known \in {None} \cup {Some(l) : l \in BSeq(KnownItems, MaxListLen)} :
          call = [fn |-> "messageRepliesToBot", replyIds |-> replyIds,
                  knownBotMessageIds |-> known,
                  done |-> FALSE, threw |-> FALSE, result |-> FALSE]

CallShouldProcess ==
  /\ call.fn = "shouldProcessInboundMessage" /\ ~call.done
  /\ call' = [call EXCEPT !.done = TRUE,
                !.result = shouldProcessInboundMessage(
                             call.isSelf, call.isSystem, call.isDM,
                             call.isMentioned, call.isReplyToBot)]
  /\ UNCHANGED <<mvars, qvars, rvars, svars, ivars, avars>>

CallMentionsBot ==
  /\ call.fn = "messageMentionsBot" /\ ~call.done
  /\ call' = [call EXCEPT !.done = TRUE,
                !.result = messageMentionsBot(call.text, call.botUserId,
                                              call.mentionIds)]
  /\ UNCHANGED <<mvars, qvars, rvars, svars, ivars, avars>>

CallRepliesToBot ==
  /\ call.fn = "messageRepliesToBot" /\ ~call.done
  /\ call' = [call EXCEPT !.done = TRUE,
                !.threw = messageRepliesToBot(call.replyIds,
                                              call.knownBotMessageIds).threw,
                !.result = messageRepliesToBot(call.replyIds,
                                               call.knownBotMessageIds).value]
  /\ UNCHANGED <<mvars, qvars, rvars, svars, ivars, avars>>

NextP == CallShouldProcess \/ CallMentionsBot \/ CallRepliesToBot

SpecP == InitP /\ [][NextP]_vars


\* ======================================================== starting (SpecS)
\* The host calls startAccount for an account; the plan is built, the client
\* is created and registered, and loginBot is awaited.

\* account.token of the accounts the host starts: absent, or a string of
\* blanks and other characters
Tokens ==
  {<<>>, <<<<>>>>, <<<<" ">>>>, <<<<" ", " ">>>>, <<<<"t">>>>,
   <<<<" ", "t", " ">>>>, <<<<"t", " ", "k">>>>}

buildStoatStartPlan_untrimmed(token) ==
  IF token = <<>> \/ token[1] = <<>>
  THEN [throws |-> TRUE, token |-> <<>>]
  ELSE [throws |-> FALSE, token |-> token[1]]

\* buildStoatStartPlan: account.token?.trim(), thrown on when falsy
buildStoatStartPlan(token) ==
  LET trimmed == IF token = <<>> THEN <<>> ELSE <<trim(token[1])>>
  IN IF trimmed = <<>> \/ trimmed[1] = <<>>
     THEN [throws |-> TRUE, token |-> <<>>]
     ELSE [throws |-> FALSE, token |-> trimmed[1]]

activeClientsDelete_keep(ac, a) == ac

\* activeClients.delete(accountId)
activeClientsDelete(ac, a) == [x \in DOMAIN ac \ {a} |-> ac[x]]

\* activeClients.set(accountId, { client, apiUrl })
activeClientsSet(ac, a, client) ==
  [x \in DOMAIN ac \cup {a} |-> IF x = a THEN client ELSE ac[x]]

FreeStarts == {i \in StartIds : starts[i].pc = "none"}

\* startAccount: the plan, then monitorStoatProvider up to the await of
\* client.loginBot(token)
startAccount(a, token) ==
  /\ FreeStarts # {}
  /\ LET i    == CHOOSE j \in FreeStarts : \A k \in FreeStarts : j <= k
         plan == buildStoatStartPlan(token)
     IN IF plan.throws
        THEN /\ starts' = [starts EXCEPT ![i] =
                             [NoStart EXCEPT !.account = a, !.given = token,
                                             !.pc = "threw"]]
             /\ UNCHANGED activeClients
        ELSE /\ starts' = [starts EXCEPT ![i] =
                             [account |-> a, given |-> token,
                              token |-> plan.token, pc |-> "login",
                              login |-> "pending", logins |-> 1]]
             /\ activeClients' = activeClientsSet(activeClients, a, i)
  /\ UNCHANGED <<mvars, qvars, rvars, pvars, ivars, avars>>

\* client.loginBot resolved: the abort listener is added and the cleanup
\* function is returned to the host
LoginResolves(i) ==
  /\ starts[i].pc = "login"
  /\ starts' = [starts EXCEPT ![i].pc = "running", ![i].login = "ok"]
  /\ UNCHANGED <<activeClients, mvars, qvars, rvars, pvars, ivars, avars>>

\* client.loginBot rejected: the catch block
LoginRejects(i) ==
  /\ starts[i].pc = "login"
  /\ activeClients' = activeClientsDelete(activeClients, starts[i].account)
  /\ starts' = [starts EXCEPT ![i].pc = "threw", ![i].login = "failed"]
  /\ UNCHANGED <<mvars, qvars, rvars, pvars, ivars, avars>>

\* the abort listener or the cleanup function of a started provider
StopProvider(i) ==
  /\ starts[i].pc \in {"running", "stopped"}
  /\ activeClients' = activeClientsDelete(activeClients, starts[i].account)
  /\ starts' = [starts EXCEPT ![i].pc = "stopped"]
  /\ UNCHANGED <<mvars, qvars, rvars, pvars, ivars, avars>>

InitS == Init

NextS ==
  \/ \E a \in Accounts, token \in Tokens : startAccount(a, token)
  \/ \E i \in StartIds : LoginResolves(i)
  \/ \E i \in StartIds : LoginRejects(i)
  \/ \E i \in StartIds : StopProvider(i)

SpecS == InitS /\ [][NextS]_vars

\* ============================ interactive messages, reactions (SpecI, SpecB)
\* Command responses that carry reaction buttons are registered in
\* interactiveMessages; the messageReactionAdd handler resolves a reaction
\* to a command through that registry or through REACTION_COMMANDS.

\* the symbols users react with: a button of the status card, a symbol of
\* the static table no card carries, the stop button and a symbol without
\* meaning
Symbols == {"refresh", "broom", EMOJI_STOP, "heart"}
Users   == {"bot", "u1", "u2"}

REACTION_COMMANDS ==
  [e \in {"trash", "chart", "question", "broom", "refresh", EMOJI_STOP} |->
     CASE e = "trash"    -> "clear"
       [] e = "chart"    -> "status"
       [] e = "question" -> "help"
       [] e = "broom"    -> "clear"
       [] e = "refresh"  -> "refresh"
       [] OTHER          -> "stop"]

\* resolveAgentRoute(...).sessionKey for the peer of a conversation
routeSessionKey(c, user) ==
  IF isDM(c) THEN <<"dm", user>> ELSE <<"channel", c>>

\* the CommandResponse handleCommand returns: whether there is one, whether
\* it has an embed, and its reactions (statsOk: the session lookup of the
\* status command did not throw)
NoResponse == [some |-> FALSE, embed |-> FALSE, reactions |-> <<>>]
commandResponse(command, statsOk) ==
  CASE command = "menu" ->
         [some |-> TRUE, embed |-> TRUE,
          reactions |-> <<<<"chart", "trash", "refresh", "question">>>>]
    [] command \in {"status", "refresh"} ->
         [some |-> TRUE, embed |-> TRUE,
          reactions |-> IF statsOk THEN <<<<"refresh", "trash">>>> ELSE <<>>]
    [] command \in {"help", "clear"} ->
         [some |-> TRUE, embed |-> TRUE, reactions |-> <<>>]
    [] OTHER -> NoResponse

\* the response a handler hands to sendCommandResponse
PendingResponse(c, response, sessionKey) ==
  [chan |-> c, reactions |-> response.reactions, sessionKey |-> sessionKey]

SentCount == Cardinality({n \in CardIds : sentCards[n] # "none"})
RoomForResponse == SentCount + Cardinality(pending) < MaxCards

\* messageCreate handler, command path, for a command that answers with an
\* embed: the route is resolved and handleCommand is awaited
CommandPath(c, user, command, statsOk) ==
  /\ ~stopped
  /\ user # "bot"
  /\ RoomForResponse
  /\ LET response == commandResponse(command, statsOk)
     IN /\ response.some
        /\ pending' = pending \cup
             {PendingResponse(c, response, routeSessionKey(c, user))}
  /\ pending' # pending
  /\ UNCHANGED <<interactiveMessages, sentCards, resolved, registered, mvars,
                 qvars, rvars, pvars, svars, avars>>

\* the reaction map of a record: the preset reactions REACTION_COMMANDS knows
reactionMap(list) ==
  [e \in {list[i] : i \in 1..Len(list)} \cap DOMAIN REACTION_COMMANDS |->
     REACTION_COMMANDS[e]]

sweep_never(im, t) == im

\* the cleanup loop of sendCommandResponse at Date.now() = t
sweep(im, t) == [n \in {k \in DOMAIN im : ~(im[k].expiresAt < t)} |-> im[n]]

\* interactiveMessages.set(messageId, record)
interactiveSet(im, n, rec) ==
  [k \in DOMAIN im \cup {n} |-> IF k = n THEN rec ELSE im[k]]

\* sendCommandResponse from the return of channel.sendMessage on (sendOk:
\* the send succeeded and the message has an id); late: ms between the two
\* Date.now() calls of the registration
sendCommandResponse(p, sendOk, late) ==
  /\ p \in pending
  /\ pending' = pending \ {p}
  /\ IF ~sendOk
     THEN UNCHANGED <<interactiveMessages, sentCards, registered, now>>
     ELSE LET n == SentCount + 1
          IN /\ sentCards' = [sentCards EXCEPT ![n] = p.chan]
             /\ IF p.reactions # <<>> /\ p.sessionKey # <<>>
                THEN /\ interactiveMessages' =
                          sweep(interactiveSet(interactiveMessages, n,
                                  [sessionKey |-> p.sessionKey,
                                   channelId |-> p.chan,
                                   reactions |-> reactionMap(p.reactions[1]),
                                   expiresAt |-> now + EXPIRY_MS]),
                                now + late)
                     /\ registered' = [id |-> n, at |-> now]
                     /\ now' = now + late
                ELSE /\ late = 0
                     /\ UNCHANGED <<interactiveMessages, registered, now>>
  /\ UNCHANGED <<resolved, mvars, qpc, lastReplyTime, startWait,
                 lastSeenReplyTime, quietSince, qAborted, wakeAt, rvars,
                 pvars, svars, avars>>

\* the messages a reaction can be put on: a trigger, a command response,
\* or a message the bot keeps nothing about
Targets ==
  {<<"msg", m>> : m \in Received} \cup
  {<<"card", n>> : n \in {k \in CardIds : sentCards[k] # "none"}} \cup
  {<<"other", 0>>}

targetChannel(target, c) ==
  CASE target[1] = "msg"  -> msgChan[target[2]]
    [] target[1] = "card" -> sentCards[target[2]]
    [] OTHER              -> c

isInteractive_never(target) == FALSE

\* the registry record of the message reacted to, if there is one
isInteractive(target) ==
  target[1] = "card" /\ target[2] \in DOMAIN interactiveMessages

\* messageReactionAdd handler: user puts emoji on the message target of
\* channel c.  editOk: the edit of an interactive message succeeds; both
\* flags are TRUE where the handler does not come to use them
messageReactionAdd(target, c, emoji, user, statsOk, editOk) ==
  /\ ~stopped
  /\ target \in Targets
  /\ c = targetChannel(target, c)
  /\ LET event == [target |-> target, chan |-> c, emoji |-> emoji,
                   user |-> user, via |-> "none", command |-> "none",
                   sessionKey |-> <<>>]
         onTrigger == target[1] = "msg"
         m == target[2]
     IN IF user = "bot"
        THEN /\ resolved' = [event EXCEPT !.via = "self"]
             /\ statsOk /\ editOk
             /\ UNCHANGED <<pending, mvars>>
        ELSE IF emoji = EMOJI_STOP /\ onTrigger /\ isCurrentMessage(state[c], m)
        THEN /\ aborted' = requestAbort(state[c], aborted)
             /\ statsOk /\ editOk
             /\ resolved' = [event EXCEPT !.via = "stop button"]
             /\ UNCHANGED <<pending, state, turn, msgChan, reactions, stopped,
                            faults, sendCalls, deliveries, lateSent, userStop>>
        ELSE IF /\ emoji = EMOJI_STOP /\ onTrigger
                /\ cancelQueuedMessageOk(state[c].queuedMessages, m)
        THEN /\ state' = [state EXCEPT ![c].queuedMessages =
                            cancelQueuedMessage(@, m)]
             /\ reactions' = [reactions EXCEPT ![m] =
                                TryBlock(@, CancelQueuedOps, 3)]
             /\ statsOk /\ editOk
             /\ resolved' = [event EXCEPT !.via = "stop button"]
             /\ UNCHANGED <<pending, aborted, turn, msgChan, stopped, faults,
                            sendCalls, deliveries, lateSent, userStop>>
        ELSE LET interactive == isInteractive(target)
                 viaRecord ==
                   /\ interactive
                   /\ emoji \in DOMAIN interactiveMessages[target[2]].reactions
                 viaTable == ~viaRecord /\ emoji \in DOMAIN REACTION_COMMANDS
                 command ==
                   IF viaRecord
                   THEN interactiveMessages[target[2]].reactions[emoji]
                   ELSE REACTION_COMMANDS[emoji]
                 sessionKey ==
                   IF viaRecord THEN interactiveMessages[target[2]].sessionKey
                   ELSE routeSessionKey(c, user)
                 response == commandResponse(command, statsOk)
             IN /\ IF ~viaRecord /\ ~viaTable
                   THEN /\ resolved' = event
                        /\ statsOk /\ editOk
                        /\ UNCHANGED pending
                   ELSE /\ command \notin {"status", "refresh"} => statsOk
                        /\ ~(interactive /\ response.embed) => editOk
                        /\ resolved' =
                             [event EXCEPT
                                !.via = IF viaRecord THEN "record" ELSE "table",
                                !.command = command,
                                !.sessionKey = sessionKey]
                        /\ IF response.some /\
                              ~(interactive /\ response.embed /\ editOk)
                           THEN /\ RoomForResponse
                                /\ pending' = pending \cup
                                     {PendingResponse(c, response, sessionKey)}
                           ELSE UNCHANGED pending
                /\ UNCHANGED mvars
  /\ UNCHANGED <<interactiveMessages, sentCards, registered, qvars, rvars,
                 pvars, svars, avars>>

\* time passes
TickI ==
  /\ now + TickMs <= StartTime + MaxTicks * TickMs
  /\ now' = now + TickMs
  /\ UNCHANGED <<mvars, qpc, lastReplyTime, startWait, lastSeenReplyTime,
                 quietSince, qAborted, wakeAt, rvars, pvars, svars, ivars, avars>>

\* a trigger message reaches the queue system
Trigger(c) == Cardinality(Received) < MaxTriggers /\ Submit(c, 2, FALSE)

\* user u1 sends the status command as a text command
StatusCommand ==
  \E c \in Channels, statsOk \in BOOLEAN : CommandPath(c, "u1", "status", statsOk)

SendReturns ==
  \E p \in pending, sendOk \in BOOLEAN, late \in 0..1 :
    sendCommandResponse(p, sendOk, late)

ReactionAdded ==
  \E target \in Targets, emoji \in Symbols, user \in Users,
     statsOk \in BOOLEAN, editOk \in BOOLEAN :
    \E c \in {d \in Channels : d = targetChannel(target, d)} :
      messageReactionAdd(target, c, emoji, user, statsOk, editOk)

TriggerAny == \E c \in Channels : Trigger(c)

InitI ==
  /\ state = [c \in Channels |-> getChannelState]
  /\ aborted = {}
  /\ turn = [t \in TurnIds |-> NoTurn]
  /\ msgChan = [m \in MsgIds |-> "none"]
  /\ reactions = [m \in MsgIds |-> {}]
  /\ stopped = FALSE
  /\ faults = 0
  /\ deliveries = 0
  /\ sendCalls = 0
  /\ lateSent = {}
  /\ userStop = {}
  /\ channelSettings = NoSettings /\ settingsFile = NoFile
  /\ last = NoLast /\ call = NoCall
  /\ NoStarts /\ NoCards /\ NoFetching
  /\ now = StartTime /\ qpc = "off" /\ lastReplyTime = 0 /\ startWait = 0
  /\ lastSeenReplyTime = 0 /\ quietSince = 0 /\ qAborted = FALSE
  /\ wakeAt = 0

\* the registry under a clock
NextI == StatusCommand \/ SendReturns \/ TickI

SpecI == InitI /\ [][NextI]_vars

\* the reaction handler, with the registry and the queues it consults
NextB == StatusCommand \/ SendReturns \/ ReactionAdded \/ TriggerAny

SpecB == InitI /\ [][NextB]_vars

\* user u2 presses the refresh button of a command response
ButtonPressed ==
  \E n \in {k \in CardIds : sentCards[k] # "none"},
     statsOk \in BOOLEAN, editOk \in BOOLEAN :
    messageReactionAdd(<<"card", n>>, sentCards[n], "refresh", "u2",
                       statsOk, editOk)

\* the registry under a clock, with buttons being pressed
NextE == StatusCommand \/ SendReturns \/ TickI \/ ButtonPressed

SpecE == InitI /\ [][NextE]_vars

\* ------------------------------------------------------------------ SpecA
\* message events in their order of arrival: in this specification the id of
\* a message is its position in the order the messageCreate events arrived
Arrived == Received \cup {m \in MsgIds : fetching[m] # "none"}
NextArrival == Cardinality(Arrived) + 1

\* messageCreate handler of a trigger message without reply ids: it runs
\* from the event to the queue system without suspending
ArriveDirect(c, throws) ==
  /\ NoRejected
  /\ ~stopped
  /\ NextArrival <= MaxMsgs
  /\ QueueSystemOf(NextArrival, c, 2, throws)
  /\ UNCHANGED <<rvars, avars>>

\* messageCreate handler of a message with reply ids: it runs up to the
\* await of fetchMessage
ArriveReply(c) ==
  /\ NoRejected
  /\ ~stopped
  /\ NextArrival <= MaxMsgs
  /\ fetching' = [fetching EXCEPT ![NextArrival] = c]
  /\ UNCHANGED <<mvars, qvars, rvars, pvars, svars, ivars>>

\* fetchMessage has returned or thrown and the handler goes on; trigger: the
\* message passes the gate and is not a command
FetchReturns(m, trigger, throws) ==
  /\ fetching[m] \in Channels
  /\ IF trigger
     THEN /\ QueueSystemOf(m, fetching[m], 2, throws)
          /\ fetching' = [fetching EXCEPT ![m] = "none"]
     ELSE /\ ~throws
          /\ fetching' = [fetching EXCEPT ![m] = "ignored"]
          /\ UNCHANGED <<mvars, qvars, pvars, svars, ivars>>
  /\ UNCHANGED rvars

NextA ==
  \/ \E c \in Channels, throws \in BOOLEAN : ArriveDirect(c, throws)
  \/ \E c \in Channels : ArriveReply(c)
  \/ \E m \in MsgIds, trigger \in BOOLEAN, throws \in BOOLEAN :
       FetchReturns(m, trigger, throws)
  \/ \E t \in TurnIds : CatchRejected(t)
  \/ \E t \in TurnIds : MarkAndDispatch(t)
  \/ \E t \in TurnIds : DispatchReturns(t)
  \/ \E t \in TurnIds : WaitExit(t)
  \/ \E t \in TurnIds : ReadWasAborted(t)
  \/ \E t \in TurnIds : Finish(t)

SpecA == Init /\ [][NextA]_vars

\* ------------------------------------------------------------------ SpecL
\* the queue engine under a fair event loop: a continuation that is ready
\* is run, the AI dispatch call returns or throws, and the quiet-period
\* loop ends (at the latest at MAX_WAIT)
NextL ==
  \/ \E c \in Channels, throws \in BOOLEAN : Submit(c, 2, throws)
  \/ \E t \in TurnIds : CatchRejected(t)
  \/ \E t \in TurnIds : MarkAndDispatch(t)
  \/ \E t \in TurnIds : DispatchReturns(t)
  \/ \E t \in TurnIds : DispatchThrows(t)
  \/ \E t \in TurnIds : WaitExit(t)
  \/ \E t \in TurnIds : ReadWasAborted(t)
  \/ \E t \in TurnIds : Finish(t)
  \/ \E m \in MsgIds : StopReaction(m, 3)

TurnProgress(t) ==
  \/ CatchRejected(t)
  \/ MarkAndDispatch(t)
  \/ DispatchReturns(t)
  \/ WaitExit(t)
  \/ ReadWasAborted(t)
  \/ Finish(t)

SpecL ==
  Init /\ [][NextL]_vars /\ \A t \in TurnIds : WF_vars(TurnProgress(t))

\* ==================================================================== claims
Running    == {"mark", "dispatching", "wait", "stoptyping", "react"}
InProgress(t) == turn[t].pc \in Running
Dispatched(t) == turn[t].pc \in {"dispatching", "wait", "stoptyping", "react"}
                 \/ (turn[t].pc = "done" /\ turn[t].dispatches > 0)
InAnyBatch(m) == \E t \in TurnIds : m \in BatchIds(turn[t].messages)

\* C1: in every reachable state each conversation has at most one turn
\* between token creation and state reset, hence at most one AI dispatch
\* call in flight.
C1_OneTurnPerConversation ==
  \A t, u \in TurnIds :
    (InProgress(t) /\ InProgress(u) /\ turn[t].chan = turn[u].chan) => t = u

\* a second turn of a conversation is dispatching while a trigger that
\* arrived during it waits in the queue
C1_Witness ==
  \E t, u \in TurnIds :
    /\ t # u /\ turn[t].chan = turn[u].chan
    /\ turn[t].pc = "done" /\ turn[t].dispatches > 0
    /\ turn[u].pc = "dispatching"
    /\ Len(state[turn[u].chan].queuedMessages) > 0

\* C2 (as claimed): no payload of a turn is sent to the chat platform once
\* that turn's cancellation token has fired (stated for the turns whose
\* dispatch call returned normally).
C2_NoSendAfterCancel == \A t \in lateSent : turn[t].failed

\* C3 (as claimed): every trigger of a finished turn has lost its processing
\* indicator and stop affordance and carries exactly one terminal indicator,
\* cancelled if the turn's token fired and complete otherwise (stated for
\* the turns whose dispatch call returned normally).
C3_TerminalIndicator ==
  \A t \in TurnIds :
    (turn[t].pc = "done" /\ turn[t].dispatches > 0 /\ ~turn[t].failed) =>
      \A m \in BatchIds(turn[t].messages) :
        /\ EMOJI_PROCESSING \notin reactions[m]
        /\ EMOJI_STOP \notin reactions[m]
        /\ (t \in aborted) =>
             (EMOJI_CANCELLED \in reactions[m] /\ EMOJI_COMPLETE \notin reactions[m])
        /\ (t \notin aborted) =>
             (EMOJI_COMPLETE \in reactions[m] /\ EMOJI_CANCELLED \notin reactions[m])

\* C4: a trigger received while its conversation is processing changes no
\* turn (no batch, no prompt, no new turn) and is appended to the queue; a
\* batch and a prompt never change once made; and when a turn ends every
\* queued entry that is not cancelled is in the batch of the one turn that
\* is started in the same step.
C4_QueuedJoinsNextBatch ==
  [][ /\ \A m \in MsgIds :
           (msgChan[m] = "none" /\ msgChan'[m] # "none"
            /\ state[msgChan'[m]].isProcessing) =>
             /\ turn' = turn
             /\ state'[msgChan'[m]].queuedMessages =
                  Append(state[msgChan'[m]].queuedMessages,
                         [id |-> m, cancelled |-> FALSE])
      /\ \A t \in TurnIds :
           /\ turn[t].pc # "none" => turn'[t].messages = turn[t].messages
           /\ turn[t].dispatches > 0 => turn'[t].prompt = turn[t].prompt
      /\ \A t \in TurnIds :
           (turn[t].pc = "react" /\ turn'[t].pc = "done") =>
             LET q == state[turn[t].chan].queuedMessages
                 started == {u \in TurnIds :
                               turn[u].pc = "none" /\ turn'[u].pc # "none"}
             IN /\ Cardinality(started) <= 1
                /\ \A i \in 1..Len(q) :
                     ~q[i].cancelled =>
                       \E u \in started :
                         /\ turn'[u].chan = turn[t].chan
                         /\ q[i].id \in BatchIds(turn'[u].messages)
    ]_vars

\* a turn whose batch holds two triggers, which only a flush produces
C4_Witness ==
  \E u \in TurnIds : Len(turn[u].messages) = 2 /\ turn[u].pc = "mark"

\* the prompt the batching rule prescribes for a batch
RawText(messages) == <<Content(messages[1].id)>>
AuthorLine(msg)   == <<"[", AuthorName(msg.id), "]: ", Content(msg.id), "\n">>

C6_CancelledNeverBatched ==
  [][ \A c \in Channels :
        \A i \in 1..Len(state[c].queuedMessages) :
          state[c].queuedMessages[i].cancelled =>
            \A t \in TurnIds :
              /\ state[c].queuedMessages[i].id \notin BatchIds(turn'[t].messages)
              /\ \A j \in 1..Len(turn'[t].messages) :
                   ~turn'[t].messages[j].cancelled
    ]_vars

\* a queue that held a cancelled entry was flushed into a batch without it
C6_Witness ==
  \E u \in TurnIds, m, m2 \in Received :
    /\ turn[u].pc = "mark"
    /\ msgChan[m] = turn[u].chan
    /\ EMOJI_CANCELLED \in reactions[m]
    /\ ~InAnyBatch(m)
    /\ state[turn[u].chan].queuedMessages = <<>>
    /\ m < m2 /\ m2 \in BatchIds(turn[u].messages)

\* C7: a controller becomes aborted in a step exactly when that step is a
\* stop reaction on the message that is currentMessageId of its channel and
\* the controller is the one of that channel's running turn.
C7_StopOnlyCurrentTrigger ==
  [][ /\ \A k \in TurnIds :
           (k \in aborted' /\ k \notin aborted) =>
             \E m \in MsgIds :
               /\ m \in userStop' /\ m \notin userStop
               /\ state[msgChan[m]].currentMessageId = m
               /\ state[msgChan[m]].abortController = k
               /\ turn[k].messages[1].id = m /\ InProgress(k)
      /\ \A m \in MsgIds :
           (m \in userStop' /\ m \notin userStop) =>
             IF state[msgChan[m]].currentMessageId = m
             THEN state[msgChan[m]].abortController \in aborted'
             ELSE aborted' = aborted
    ]_vars

\* the stop reaction was put on a message that is in the running batch but
\* is not its first trigger, and the running turn's token has not fired
C7_Witness ==
  \E t \in TurnIds, m \in userStop :
    /\ InProgress(t) /\ t \notin aborted
    /\ m \in BatchIds(turn[t].messages)
    /\ m # turn[t].messages[1].id

\* C8: a stop reaction on a queued, not yet cancelled trigger that is not
\* currentMessageId sets the cancelled flag of that entry and changes nothing
\* else of any channel's processing state, no token and no turn.
C8_CancelQueuedFrame ==
  [][ \A m \in MsgIds :
        (/\ m \in userStop' /\ m \notin userStop
         /\ state[msgChan[m]].currentMessageId # m
         /\ \E i \in 1..Len(state[msgChan[m]].queuedMessages) :
              /\ state[msgChan[m]].queuedMessages[i].id = m
              /\ ~state[msgChan[m]].queuedMessages[i].cancelled) =>
          LET c == msgChan[m]
              q == state[c].queuedMessages
          IN /\ aborted' = aborted
             /\ turn' = turn
             /\ \A d \in Channels \ {c} : state'[d] = state[d]
             /\ state'[c].isProcessing = state[c].isProcessing
             /\ state'[c].currentMessageId = state[c].currentMessageId
             /\ state'[c].abortController = state[c].abortController
             /\ Len(state'[c].queuedMessages) = Len(q)
             /\ \A i \in 1..Len(q) :
                  state'[c].queuedMessages[i] =
                    IF q[i].id = m THEN [id |-> m, cancelled |-> TRUE] ELSE q[i]
    ]_vars

\* one of two queued triggers was cancelled while a turn is running whose
\* token has not fired
C8_Witness ==
  \E c \in Channels :
    /\ state[c].isProcessing /\ state[c].abortController # NULL
    /\ state[c].abortController \notin aborted
    /\ \E i, j \in 1..Len(state[c].queuedMessages) :
         /\ state[c].queuedMessages[i].cancelled
         /\ state[c].queuedMessages[i].id \in userStop
         /\ ~state[c].queuedMessages[j].cancelled

\* C9 (as claimed): the triggers of a turn whose AI dispatch call failed
\* never end with the complete indicator.
C9_FailedTurnNotComplete ==
  \A t \in TurnIds :
    (turn[t].pc = "done" /\ turn[t].failed) =>
      \A m \in BatchIds(turn[t].messages) : EMOJI_COMPLETE \notin reactions[m]

\* C10 (as claimed): the quiescence wait, when no cancel cuts it short, ends
\* no later than quiet window + poll interval after the last successful
\* delivery.
C10_EndsWithinQuietOfLastDelivery ==
  (qpc = "ended" /\ lastReplyTime > 0 /\ ~qAborted) =>
    now <= lastReplyTime + QUIET_PERIOD + CHECK_INTERVAL

\* C10 (amended): the quiescence wait ends no later than one poll interval
\* after the later of the last successful delivery + quiet window and the
\* return of the dispatch call.
C10_EndsWithinQuietOfLastDeliveryOrReturn ==
  (qpc = "ended" /\ lastReplyTime > 0) =>
    now <= Max(lastReplyTime + QUIET_PERIOD, startWait) + CHECK_INTERVAL

\* the wait ended by the quiet window, more than the quiet window after a
\* reply that was delivered during the wait
C10_Witness ==
  /\ qpc = "ended" /\ ~qAborted
  /\ lastReplyTime > startWait
  /\ now > lastReplyTime + QUIET_PERIOD
  /\ now - startWait < MAX_WAIT

\* C11: the quiescence wait always terminates: while the loop is running its
\* pending timer expires no later than the hard ceiling after the wait began,
\* and the wait has ended no later than the hard ceiling plus one poll
\* interval after it began, however replies keep arriving.
C11_WaitEndsByCeiling ==
  /\ qpc = "sleeping" => /\ now <= wakeAt
                         /\ wakeAt < startWait + MAX_WAIT + CHECK_INTERVAL
  /\ qpc = "ended" => now <= startWait + MAX_WAIT + CHECK_INTERVAL

\* the wait was ended by the hard ceiling: no cancel, and a reply arrived
\* less than the quiet window before the end
C11_Witness ==
  /\ qpc = "ended" /\ ~qAborted
  /\ now - startWait >= MAX_WAIT
  /\ lastReplyTime > startWait
  /\ now - lastReplyTime < QUIET_PERIOD

\* C12: turns of different conversations are independent: a trigger received
\* by an idle conversation starts a turn of its own with that trigger alone
\* and is not queued, whatever the other conversations are doing; a stop
\* reaction in one conversation leaves the processing state of every other
\* conversation unchanged and fires no token of another conversation; and
\* no step changes the processing state of more than one conversation.
C12_ConversationsIndependent ==
  [][ /\ \A m \in MsgIds :
           (msgChan[m] = "none" /\ msgChan'[m] # "none"
            /\ ~state[msgChan'[m]].isProcessing) =>
             LET c == msgChan'[m]
             IN /\ state'[c].queuedMessages = state[c].queuedMessages
                /\ state'[c].isProcessing
                /\ \E u \in TurnIds :
                     /\ turn[u].pc = "none" /\ turn'[u].pc # "none"
                     /\ turn'[u].chan = c
                     /\ turn'[u].messages = <<[id |-> m, cancelled |-> FALSE]>>
      /\ \A m \in MsgIds :
           (m \in userStop' /\ m \notin userStop) =>
             /\ \A d \in Channels \ {msgChan[m]} : state'[d] = state[d]
             /\ \A k \in aborted' \ aborted : turn[k].chan = msgChan[m]
      /\ \A c, d \in Channels :
           (state'[c] # state[c] /\ state'[d] # state[d]) => c = d
    ]_vars

\* two conversations are processing at once; the token of one has fired, the
\* token of the other has not, and the other holds a queued trigger
C12_Witness ==
  \E c, d \in Channels :
    /\ c # d
    /\ state[c].isProcessing /\ state[d].isProcessing
    /\ state[c].abortController # NULL /\ state[c].abortController \in aborted
    /\ state[d].abortController # NULL /\ state[d].abortController \notin aborted
    /\ Len(state[d].queuedMessages) = 1

\* the read-all setting stored for a conversation is on
ReadAllOn(c) == c \in DOMAIN channelSettings /\ channelSettings[c].readAll

\* a step that handles a messageCreate event
Handled == last' # last /\ last'.outcome # "restarted"

\* C13: a message authored by the bot itself or flagged as a system message
\* is never processed, whatever its other fields are: the handler returns
\* without running a command, queueing anything or starting a turn, and
\* leaves every conversation, every turn and the settings as they were.
C13_SelfAndSystemIgnored ==
  [][ (Handled /\ (last'.self \/ last'.system)) =>
        /\ last'.outcome = "ignored"
        /\ UNCHANGED <<state, turn, msgChan, reactions, aborted,
                       channelSettings, settingsFile>>
    ]_vars

\* a message of the bot itself was ignored although it replies to the bot,
\* begins with the command prefix and arrived in a read-all conversation
\* while a turn was running there
C13_Witness ==
  /\ last.outcome = "ignored" /\ last.self /\ ~last.system
  /\ last.reply /\ last.text = <<"!", "toggle-read-all">>
  /\ ~isDM(last.chan)
  /\ ReadAllOn(last.chan)
  /\ state[last.chan].isProcessing

\* the text carries a mention of the bot: a mention token or the bot's name
MentionsBot(text) ==
  \E i \in 1..Len(text) : text[i] \in {"<@bot>", "<@!bot>", "whimsycat"}

\* the mention-stripped text begins with the command prefix
HasCommandPrefix(text) ==
  LET stripped == trim(stripMentions(text))
  IN stripped # <<>> /\ stripped[1] = "!"

\* C14 (as claimed): in a non-direct conversation whose read-all setting is
\* off, a message of another user that neither mentions the bot nor replies
\* to a bot message is never queued and starts no turn; it is ignored, or
\* takes the command path when its mention-stripped text begins with the
\* command prefix.
C14_UnaddressedNeverQueued ==
  [][ (/\ Handled /\ ~last'.self /\ ~last'.system
       /\ ~isDM(last'.chan)
       /\ ~ReadAllOn(last'.chan)
       /\ ~MentionsBot(last'.text) /\ ~last'.reply) =>
        /\ last'.outcome \in {"ignored", "command"}
        /\ last'.outcome = "command" => HasCommandPrefix(last'.text)
        /\ UNCHANGED <<state, turn, msgChan>>
    ]_vars

C16_ReadAllAccepts ==
  [][ (/\ Handled /\ ~last'.self /\ ~last'.system
       /\ ~isDM(last'.chan)
       /\ ReadAllOn(last'.chan)) =>
        /\ last'.outcome \in {"command", "queued", "started"}
        /\ last'.outcome = "command" => HasCommandPrefix(last'.text)
        /\ last'.outcome \in {"queued", "started"} =>
             \E m \in MsgIds : /\ msgChan[m] = "none"
                               /\ msgChan'[m] = last'.chan
    ]_vars

\* a plain message without mention or reply started a turn in a read-all
\* channel
C16_Witness ==
  /\ last.outcome = "started" /\ ~last.self /\ ~last.system
  /\ ~isDM(last.chan) /\ ~MentionsBot(last.text) /\ ~last.reply
  /\ ~HasCommandPrefix(last.text)
  /\ ReadAllOn(last.chan)
  /\ \E t \in TurnIds : turn[t].pc = "mark" /\ turn[t].chan = last.chan

\* the mention-stripped text begins with the command prefix and the word
\* after it is, in any letter case, the name of a text command
NamesRecognizedCommand(text) ==
  LET stripped == trim(stripMentions(text))
  IN /\ Len(stripped) >= 2 /\ stripped[1] = "!"
     /\ stripped[2] \in {"status", "clear", "model", "help", "HELP", "ping",
                         "menu", "test", "toggle-read-all", "read-mode"}

\* C17: a message of another user whose mention-stripped text begins with
\* the command prefix and names a recognized command is handled on the
\* command path, whatever its mention state, the kind of conversation, the
\* read-all setting and the processing state of the conversation are; it is
\* never queued and starts no turn.
C17_CommandsBypassQueue ==
  [][ (/\ Handled /\ ~last'.self /\ ~last'.system
       /\ NamesRecognizedCommand(last'.text)) =>
        /\ last'.outcome = "command"
        /\ UNCHANGED <<state, turn, msgChan, reactions, aborted>>
    ]_vars

\* a command without mention was handled on the command path in a channel
\* whose read-all setting is off, while a turn was running there
C17_Witness ==
  /\ last.outcome = "command" /\ last.text = <<"!", "HELP">>
  /\ ~last.reply /\ ~isDM(last.chan) /\ ~ReadAllOn(last.chan)
  /\ state[last.chan].isProcessing
  /\ \E t \in TurnIds : turn[t].pc = "dispatching" /\ turn[t].chan = last.chan

\* a string without its leading and trailing blanks
RECURSIVE DropBlanks(_)
DropBlanks(str) ==
  IF str # <<>> /\ str[1] = " " THEN DropBlanks(SubSeq(str, 2, Len(str)))
  ELSE IF str # <<>> /\ str[Len(str)] = " "
  THEN DropBlanks(SubSeq(str, 1, Len(str) - 1))
  ELSE str

\* the list holds id, or the text holds <@id> or <@!id>
MentionOf(id, text, mentionIds) ==
  \/ mentionIds # None /\ \E i \in 1..Len(mentionIds[1]) : mentionIds[1][i] = id
  \/ /\ text # None
     /\ \E i \in 1..Len(text[1]) :
          \/ /\ i + Len(id) + 2 <= Len(text[1])
             /\ SubSeq(text[1], i, i + Len(id) + 2) = <<"<", "@">> \o id \o <<">">>
          \/ /\ i + Len(id) + 3 <= Len(text[1])
             /\ SubSeq(text[1], i, i + Len(id) + 3) =
                  <<"<", "@", "!">> \o id \o <<">">>

\* C18 (as claimed): messageMentionsBot returns true exactly when the bot id
\* it is given is non-empty and either appears in the structured mention-id
\* list or the text contains <@id> or <@!id> for that id.
C18_MentionsExactForGivenId ==
  (call.fn = "messageMentionsBot" /\ call.done) =>
    (call.result <=>
       /\ call.botUserId # None /\ call.botUserId[1] # <<>>
       /\ MentionOf(call.botUserId[1], call.text, call.mentionIds))

\* C18 (amended): messageMentionsBot returns true exactly when the bot id
\* with its surrounding whitespace removed is non-empty and that trimmed id
\* either appears in the structured mention-id list or the text contains
\* <@id> or <@!id> for it.
C18_MentionsExactForTrimmedId ==
  (call.fn = "messageMentionsBot" /\ call.done) =>
    (call.result <=>
       /\ call.botUserId # None /\ DropBlanks(call.botUserId[1]) # <<>>
       /\ MentionOf(DropBlanks(call.botUserId[1]), call.text, call.mentionIds))

\* the silent-mention token of the bot, and nothing else, made the call
\* return true
C18_Witness ==
  /\ call.fn = "messageMentionsBot" /\ call.done /\ call.result
  /\ call.botUserId = Some(<<"b">>)
  /\ call.text = Some(<<"<", "@", "!", "b", ">">>)
  /\ call.mentionIds = Some(<<<<"c">>>>)

\* the ids of the well-formed entries of a reply-reference input: strings,
\* and objects with a string id
WellFormedReplyIds(replyIds) ==
  IF replyIds.kind # "array" THEN {}
  ELSE {replyIds.items[i].id :
          i \in {j \in 1..Len(replyIds.items) :
                   replyIds.items[j].kind \in {"string", "strid"}}}

\* the strings of the known-id collection
KnownGiven(known) ==
  IF known = None THEN {}
  ELSE {known[1][i].id :
          i \in {j \in 1..Len(known[1]) : known[1][j].kind = "string"}}

\* C19 (as claimed): messageRepliesToBot never throws, whatever the
\* reply-reference input is, and returns true exactly when at least one
\* well-formed entry is among the known bot message ids it is given.
C19_RepliesExactForGivenIds ==
  (call.fn = "messageRepliesToBot" /\ call.done) =>
    /\ ~call.threw
    /\ call.result <=>
         (WellFormedReplyIds(call.replyIds)
            \cap KnownGiven(call.knownBotMessageIds) # {})

\* C19 (amended): messageRepliesToBot never throws, whatever the
\* reply-reference input is, and returns true exactly when at least one
\* well-formed entry is among the known bot message ids that are not blank;
\* malformed entries never match, and it returns false when no known id is
\* left.
C19_RepliesExactForNonBlankIds ==
  (call.fn = "messageRepliesToBot" /\ call.done) =>
    /\ ~call.threw
    /\ call.result <=>
         (WellFormedReplyIds(call.replyIds)
            \cap {id \in KnownGiven(call.knownBotMessageIds) :
                    DropBlanks(id) # <<>>} # {})

\* a list of a null entry and an object with a known string id gave true
C19_Witness ==
  /\ call.fn = "messageRepliesToBot" /\ call.done
  /\ call.result /\ ~call.threw
  /\ call.replyIds = [kind |-> "array",
                      items |-> <<Item("null", <<>>), Item("strid", <<"r">>)>>]
  /\ call.knownBotMessageIds = Some(<<Item("string", <<"r">>)>>)

\* the read-all value a read of the settings map cs gives for conversation c
ReadOf(cs, c) == IF c \in DOMAIN cs THEN cs[c].readAll ELSE FALSE

\* the read-all value a fresh process would read for c from the file f
ReadAfterReload(f, c) ==
  f.exists /\ \E e \in f.data : e[1] = c /\ e[3] = "true"

C21_LoginFailureFatal ==
  [][\A i \in StartIds :
       /\ starts'[i].login = "failed"
            => starts'[i].pc = "threw" /\ starts'[i].logins = 1
       /\ starts[i].login = "pending" /\ starts'[i].login = "failed"
            => starts[i].account \notin DOMAIN activeClients']_vars

\* a login failed while the registry held the entry the call had made
C21_Witness ==
  \E i \in StartIds, j \in StartIds :
    /\ starts[i].login = "failed"
    /\ starts[j].login = "ok" /\ starts[j].account # starts[i].account
    /\ DOMAIN activeClients = {starts[j].account}

\* the characters of a token that are not blanks exist
BlankToken(token) ==
  token = <<>> \/ \A k \in 1..Len(token[1]) : token[1][k] = " "

\* C22: a start call whose account token is absent, empty or blank throws
\* before any client exists; every other start call carries the token
\* without its leading and trailing blanks, and no login uses an empty token.
C22_NoStartWithoutToken ==
  \A i \in StartIds :
    starts[i].pc # "none" =>
      IF BlankToken(starts[i].given)
      THEN /\ starts[i].pc = "threw"
           /\ starts[i].logins = 0
           /\ \A a \in DOMAIN activeClients : activeClients[a] # i
      ELSE /\ starts[i].logins = 1
           /\ starts[i].token = DropBlanks(starts[i].given[1])
           /\ starts[i].token # <<>>

\* one call threw on a blank token, another logged in with a trimmed one
C22_Witness ==
  \E i \in StartIds, j \in StartIds :
    /\ starts[i].pc = "threw" /\ starts[i].given = <<<<" ", " ">>>>
    /\ starts[j].login = "ok" /\ starts[j].given = <<<<" ", "t", " ">>>>
    /\ starts[j].token = <<"t">>

\* the turns whose batch holds message m
TurnsOf(m) == {t \in TurnIds : m \in BatchIds(turn[t].messages)}

\* C23: over the whole run a trigger is in the batch of at most one
\* processMessages invocation, at one position of it, and that invocation
\* calls the dispatcher at most once.
C23_ConsumedOnce ==
  \A m \in MsgIds :
    /\ Cardinality(TurnsOf(m)) <= 1
    /\ \A t \in TurnsOf(m) :
         /\ Cardinality({i \in 1..Len(turn[t].messages) :
                           turn[t].messages[i].id = m}) = 1
         /\ turn[t].dispatches <= 1

\* two queued triggers were flushed into one batch, which was dispatched
\* after the turn of the first trigger had ended
C23_Witness ==
  \E t \in TurnIds, u \in TurnIds :
    /\ turn[t].pc = "done" /\ turn[t].dispatches = 1
    /\ turn[u].chan = turn[t].chan /\ Len(turn[u].messages) = 2
    /\ turn[u].pc = "done" /\ turn[u].dispatches = 1

\* the trigger submitted by this step, if the step submits one
Submitted(m) == msgChan[m] = "none" /\ msgChan'[m] # "none"

\* C24: a trigger submitted to a channel that is not processing makes one
\* new processMessages invocation whose batch is that trigger alone and
\* leaves the queue as it was; a trigger submitted to a channel that is
\* processing becomes the last entry of the queue and no invocation is made.
C24_StartOrAppend ==
  [][\A m \in MsgIds :
       Submitted(m) =>
         LET c == msgChan'[m]
             started == {t \in TurnIds : turn[t].pc = "none" /\
                                         turn'[t].pc # "none"}
         IN IF state[c].isProcessing
            THEN /\ started = {}
                 /\ turn' = turn
                 /\ state'[c].queuedMessages =
                      Append(state[c].queuedMessages,
                             [id |-> m, cancelled |-> FALSE])
                 /\ state'[c].isProcessing
            ELSE /\ Cardinality(started) = 1
                 /\ \A t \in started :
                      /\ turn'[t].chan = c
                      /\ turn'[t].messages = <<[id |-> m, cancelled |-> FALSE]>>
                 /\ state'[c].queuedMessages = state[c].queuedMessages
                 /\ state'[c].isProcessing]_vars

\* a turn with a single-trigger batch is in progress and two later triggers
\* wait behind it in the order of their arrival
C24_Witness ==
  \E t \in TurnIds :
    /\ InProgress(t)
    /\ turn[t].messages = <<[id |-> 1, cancelled |-> FALSE]>>
    /\ state[turn[t].chan].queuedMessages =
         <<[id |-> 2, cancelled |-> FALSE], [id |-> 3, cancelled |-> FALSE]>>

\* the entries of a queue that are not cancelled, in queue order
Pending(q) == SelectSeq(q, LAMBDA e : e.cancelled = FALSE)

\* C25: the step in which a turn resets the channel state also flushes the
\* queue: the entries pending then that are not cancelled are, in queue
\* order, the batch of the one invocation that step makes, or the step makes
\* none and leaves the channel idle when there are none; the queue is empty
\* afterwards and no trigger is submitted within the step.
C25_FlushAtTurnEnd ==
  [][\A t \in TurnIds :
       turn[t].pc = "react" /\ turn'[t].pc = "done" =>
         LET c == turn[t].chan
             batch == Pending(state[c].queuedMessages)
             started == {u \in TurnIds : turn[u].pc = "none" /\
                                         turn'[u].pc # "none"}
         IN /\ state'[c].queuedMessages = <<>>
            /\ msgChan' = msgChan
            /\ IF batch # <<>>
               THEN /\ Cardinality(started) = 1
                    /\ \A u \in started : /\ turn'[u].chan = c
                                          /\ turn'[u].messages = batch
                    /\ state'[c].isProcessing
               ELSE /\ started = {}
                    /\ ~state'[c].isProcessing
                    /\ state'[c].currentMessageId = NULL
                    /\ state'[c].abortController = NULL]_vars

\* the turn of trigger 1 ended while trigger 2 was pending cancelled and
\* trigger 3 pending: the next batch is trigger 3 alone
C25_Witness ==
  \E t \in TurnIds, u \in TurnIds :
    /\ turn[t].pc = "done" /\ turn[t].messages = <<[id |-> 1, cancelled |-> FALSE]>>
    /\ turn[u].chan = turn[t].chan /\ msgChan[2] = turn[t].chan
    /\ 2 \in userStop /\ ~InAnyBatch(2)
    /\ turn[u].messages = <<[id |-> 3, cancelled |-> FALSE]>>
    /\ state[turn[t].chan].queuedMessages = <<>>

\* a step in which a call to the chat platform failed
FaultStep == faults' < faults

\* the step a turn in progress takes next, whatever the platform answers
TurnStep(t) ==
  \/ MarkAndDispatch(t) \/ DispatchReturns(t) \/ WaitExit(t)
  \/ ReadWasAborted(t) \/ Finish(t)

\* C26: a step in which a react, unreact, typing or sendMessage call fails
\* fires no cancellation token, marks no turn failed and takes no turn off
\* its path; when it is the last step of a turn the queue is drained into
\* the next batch; a failed sendMessage is the only one of its delivery; and
\* a turn in progress always has its next step to take.
C26_PlatformFailuresSwallowed ==
  /\ [](\A t \in TurnIds : InProgress(t) /\ NoRejected => ENABLED TurnStep(t))
  /\ [][FaultStep =>
          /\ aborted' = aborted
          /\ deliveries' # deliveries => sendCalls' = sendCalls + 1
          /\ \A t \in TurnIds :
               /\ turn'[t].failed = turn[t].failed
               /\ InProgress(t) => turn'[t].pc \in Running \cup {"done"}
               /\ turn[t].pc = "react" /\ turn'[t].pc = "done" =>
                    LET c == turn[t].chan
                    IN /\ state'[c].queuedMessages = <<>>
                       /\ state[c].queuedMessages # <<>> /\
                          (\E i \in 1..Len(state[c].queuedMessages) :
                             ~state[c].queuedMessages[i].cancelled)
                            => \E u \in TurnIds :
                                 /\ turn[u].pc = "none"
                                 /\ turn'[u].pc # "none"
                                 /\ Len(turn'[u].messages) > 0]_vars

\* the terminal reactions of a turn failed, and the trigger that was
\* queued behind it was still flushed and its turn ran to its end
C26_Witness ==
  \E t \in TurnIds, u \in TurnIds :
    /\ t # u /\ faults < MaxFailures
    /\ turn[t].pc = "done" /\ ~turn[t].reactOk /\ turn[t].dispatches = 1
    /\ turn[u].chan = turn[t].chan /\ turn[u].pc = "done"
    /\ turn[u].dispatches = 1
    /\ turn[u].messages[1].id > turn[t].messages[1].id

\* C27: while the dispatch call of a turn has not returned, a fired token
\* leaves the turn where it is: the only way on is the return (or throw) of
\* the dispatch call, the channel stays processing under the same
\* controller, and a trigger submitted to the channel is appended to the
\* queue without an invocation being made.
C27_CancelWaitsForDispatch ==
  [][\A t \in TurnIds :
       turn[t].pc = "dispatching" /\ t \in aborted' =>
         LET c == turn[t].chan
         IN /\ turn'[t].pc \in {"dispatching", "wait", "stoptyping"}
            /\ turn'[t].messages = turn[t].messages
            /\ state'[c].isProcessing
            /\ state'[c].abortController = t
            /\ state'[c].currentMessageId = state[c].currentMessageId
            /\ \A m \in MsgIds :
                 Submitted(m) /\ msgChan'[m] = c =>
                   /\ turn' = turn
                   /\ state'[c].queuedMessages =
                        Append(state[c].queuedMessages,
                               [id |-> m, cancelled |-> FALSE])]_vars

\* the token of a turn has fired, its dispatch call has not returned, and
\* two triggers wait in the queue of the channel
C27_Witness ==
  \E t \in TurnIds :
    /\ turn[t].pc = "dispatching" /\ t \in aborted
    /\ state[turn[t].chan].isProcessing
    /\ state[turn[t].chan].currentMessageId \in userStop
    /\ Len(state[turn[t].chan].queuedMessages) = 2

\* C28: a sleep of the wait loop lasts at most CHECK_INTERVAL, and once the
\* token has fired no further sleep is started: the dispatch call that
\* returns with a fired token skips the loop, and the poll at the end of
\* the sleep in which the token fired leaves the loop.
C28_CancelEndsWaitAtNextPoll ==
  /\ [](qpc = "sleeping" => now <= wakeAt /\ wakeAt - now <= CHECK_INTERVAL)
  /\ [][qAborted =>
          /\ qpc = "dispatching" /\ qpc' # "dispatching" => qpc' = "ended"
          /\ qpc = "sleeping" =>
               /\ qpc' \in {"sleeping", "ended"}
               /\ wakeAt' = wakeAt
               /\ now' <= wakeAt
               /\ now = wakeAt => qpc' = "ended"]_vars

\* the wait ended on a fired token with the last reply less than the quiet
\* window ago and the hard ceiling far away
C28_Witness ==
  /\ qpc = "ended" /\ qAborted
  /\ lastReplyTime > startWait
  /\ now - quietSince < QUIET_PERIOD
  /\ now - lastReplyTime < CHECK_INTERVAL
  /\ now - startWait < MAX_WAIT
  /\ now > startWait

\* C29: right after a registration the registry holds the new record and
\* no record whose expiresAt is earlier than the Date.now() of the
\* registration.
C29_NoExpiredAfterRegistration ==
  [][registered' # registered =>
       /\ registered'.id \in DOMAIN interactiveMessages'
       /\ \A n \in DOMAIN interactiveMessages' :
            interactiveMessages'[n].expiresAt >= registered'.at]_vars

\* a second record was registered at the very instant the first expires,
\* which is not earlier, and the first was kept
C29_Witness ==
  /\ registered.id = 2
  /\ DOMAIN interactiveMessages = {1, 2}
  /\ interactiveMessages[1].expiresAt = registered.at
  /\ interactiveMessages[2].expiresAt = registered.at + EXPIRY_MS

\* the message of a handled reaction has a registry record mapping the symbol
RecordMaps(e) ==
  /\ e.target[1] = "card"
  /\ e.target[2] \in DOMAIN interactiveMessages
  /\ e.emoji \in DOMAIN interactiveMessages[e.target[2]].reactions

\* the routing key of the reacting user in the conversation of the message
PeerKey(e) ==
  IF channelType(e.chan) \in {"DirectMessage", "Group"}
  THEN <<"dm", e.user>> ELSE <<"channel", e.chan>>

\* record first, then the static table, else no command
ResolvedAsStated(e) ==
  IF RecordMaps(e)
  THEN /\ e.command = interactiveMessages[e.target[2]].reactions[e.emoji]
       /\ e.sessionKey = interactiveMessages[e.target[2]].sessionKey
  ELSE IF e.emoji \in DOMAIN REACTION_COMMANDS
  THEN /\ e.command = REACTION_COMMANDS[e.emoji]
       /\ e.sessionKey = PeerKey(e)
  ELSE e.command = "none"

\* the stop symbol on the trigger the channel is processing, or on a
\* queued trigger that is not cancelled yet
OnStopButton(e) ==
  /\ e.emoji = EMOJI_STOP
  /\ e.target[1] = "msg"
  /\ LET st == state[e.chan]
     IN \/ st.currentMessageId = e.target[2]
        \/ \E i \in 1..Len(st.queuedMessages) :
             /\ st.queuedMessages[i].id = e.target[2]
             /\ ~st.queuedMessages[i].cancelled

\* C30 as stated: every reaction of a user other than the bot resolves
\* through the record of its message when that maps the symbol, else
\* through REACTION_COMMANDS with the re-derived key, else to no command.
C30_ResolvesRecordThenTable ==
  [][resolved' # resolved /\ resolved'.user # "bot" =>
       ResolvedAsStated(resolved')]_vars

\* C30: a reaction of a user other than the bot resolves as stated, unless
\* it is the stop symbol on the current or a queued trigger, which the stop
\* button takes and which resolves to no command.
C30_ResolvesUnlessStopButton ==
  [][resolved' # resolved /\ resolved'.user # "bot" =>
       IF OnStopButton(resolved')
       THEN resolved'.command = "none"
       ELSE ResolvedAsStated(resolved')]_vars

\* in a direct conversation user u2 pressed a button of a card that was
\* made for user u1: the command runs under the stored key of u1
C30_Witness ==
  /\ resolved.via = "record" /\ resolved.user = "u2"
  /\ resolved.chan = "chB" /\ resolved.emoji = "refresh"
  /\ resolved.command = "refresh"
  /\ resolved.sessionKey = <<"dm", "u1">>

\* the record of the message of a handled reaction is past its expiresAt
RecordExpired(e) ==
  /\ e.target[1] = "card"
  /\ e.target[2] \in DOMAIN interactiveMessages
  /\ interactiveMessages[e.target[2]].expiresAt < now

\* C31: a reaction on a message whose record is past its expiresAt is
\* resolved as on a message without record: through REACTION_COMMANDS with
\* the routing key re-derived from the reacting user and the conversation.
C31_ExpiredRecordNotUsed ==
  [][resolved' # resolved /\ resolved'.user # "bot" /\ RecordExpired(resolved')
       => /\ resolved'.emoji \in DOMAIN REACTION_COMMANDS
            => /\ resolved'.command = REACTION_COMMANDS[resolved'.emoji]
               /\ resolved'.sessionKey = PeerKey(resolved')
          /\ resolved'.emoji \notin DOMAIN REACTION_COMMANDS
            => resolved'.command = "none"]_vars

\* the conversations that are processing under a cancellation token
Tokened == {c \in Channels : state[c].isProcessing /\
                             state[c].abortController # NULL}

\* C32 as stated: over all conversations at most one is processing under a
\* cancellation token.
C32_OneTokenOverall == Cardinality(Tokened) <= 1

\* C32: the token a conversation is processing under is that of the one
\* turn of this conversation that is in progress, and no two conversations
\* hold the same token; several conversations may be processing at once.
C32_OneTokenPerConversation ==
  \A c \in Tokened :
    /\ turn[state[c].abortController].chan = c
    /\ InProgress(state[c].abortController)
    /\ \A t \in TurnIds :
         InProgress(t) /\ turn[t].chan = c => t = state[c].abortController
    /\ \A d \in Tokened : state[d].abortController = state[c].abortController
                            => d = c

\* both conversations are processing, each under its own token, and both
\* dispatch calls are in flight
C32_Witness ==
  /\ Tokened = Channels
  /\ \A c \in Channels : turn[state[c].abortController].pc = "dispatching"
  /\ state["chA"].abortController # state["chB"].abortController

\* the three processing fields of a channel record agree, and the current
\* message is the first of the batch of the turn that owns the token
Coherent(st) ==
  /\ st.isProcessing <=> st.abortController # NULL
  /\ st.abortController # NULL <=> st.currentMessageId # NULL
  /\ st.abortController # NULL =>
       /\ InProgress(st.abortController)
       /\ st.currentMessageId = turn[st.abortController].messages[1].id

\* C33: whenever the messageCreate handler of a trigger reads the record of
\* its channel, isProcessing is true iff a cancellation token exists iff
\* currentMessageId is set, and currentMessageId is the id of the first
\* trigger of the running batch
C33_HandlerSeesCoherentRecord ==
  [][\A m \in MsgIds : Submitted(m) => Coherent(state[msgChan'[m]])]_vars

\* the same at each step of a turn and at each stop reaction, which are not
\* taken between a rejected turn start and its catch callback
C33_CoherentOutsideRejection ==
  NoRejected => \A c \in Channels : Coherent(state[c])

\* C34: an idle channel (isProcessing false) holds no trigger in its queue
C34_IdleQueueEmpty ==
  \A c \in Channels :
    ~state[c].isProcessing => Pending(state[c].queuedMessages) = <<>>

\* a turn whose processMessages call rejected before it created its token
RejectedStart(t) == turn[t].pc = "done" /\ turn[t].dispatches = 0

\* no processMessages call of channel c is running or awaits its callback
NoCallOn(c) ==
  \A t \in TurnIds :
    turn[t].chan = c => turn[t].pc \notin (Running \cup {"rejected"})

C37_NothingStartsAfterStop ==
  [][stopped =>
       \A t \in TurnIds :
         /\ turn[t].pc = "none" => turn'[t].pc = "none"
         /\ turn'[t].dispatches = turn[t].dispatches]_vars

\* the ids of a sequence of queued messages increase
Ascending(q) == \A i \in 1..Len(q), j \in 1..Len(q) : i < j => q[i].id < q[j].id

\* C36: the triggers of a channel are queued and batched in the order their
\* message events arrived: every queue and every batch is in arrival order,
\* a later batch holds later arrivals than an earlier one, and the queue
\* holds later arrivals than every batch
C36_ArrivalOrderKept ==
  /\ \A c \in Channels : Ascending(state[c].queuedMessages)
  /\ \A t \in TurnIds : Ascending(turn[t].messages)
  /\ \A t \in TurnIds, u \in TurnIds :
       t < u /\ turn[t].pc # "none" /\ turn[u].pc # "none" /\
       turn[t].chan = turn[u].chan =>
         \A a \in BatchIds(turn[t].messages), b \in BatchIds(turn[u].messages) :
           a < b
  /\ \A t \in TurnIds :
       turn[t].pc # "none" =>
         \A a \in BatchIds(turn[t].messages),
            b \in BatchIds(state[turn[t].chan].queuedMessages) : a < b

\* trigger m waits in the queue of a channel and is not cancelled
QueuedLive(m) ==
  \E c \in Channels : \E i \in 1..Len(state[c].queuedMessages) :
    /\ state[c].queuedMessages[i].id = m
    /\ ~state[c].queuedMessages[i].cancelled

\* trigger m was cancelled while it waited in a queue
QueuedCancelled(m) == m \in userStop /\ ~InAnyBatch(m)

\* trigger m is in a batch for which the AI dispatch call was made
InDispatchedBatch(m) ==
  \E t \in TurnIds : turn[t].dispatches > 0 /\ m \in BatchIds(turn[t].messages)

\* C35, first part: a trigger that is queued and not cancelled is
\* eventually in a batch that is dispatched
C35_QueuedEventuallyDispatched ==
  \A m \in MsgIds :
    QueuedLive(m) ~> (InDispatchedBatch(m) \/ QueuedCancelled(m))

\* C35, second part: a started turn eventually resets the channel record
C35_StartedEventuallyResets ==
  \A t \in TurnIds : InProgress(t) ~> (turn[t].pc = "done")

\* C35: both parts
C35_QueuedDispatchedAndTurnsReset ==
  C35_QueuedEventuallyDispatched /\ C35_StartedEventuallyResets
====
